---- MODULE Spec2Model ----
(***************************************************************************)
(* buzz-analyzer: the heuristic scorers (analyze_posts.calculate_buzz_score,*)
(* buzz_score_v2.calculate_buzz_score_v2,                                  *)
(* algorithm_analysis.calculate_algorithm_score), the analysis filter      *)
(* (analyze_posts.filter_data) and the posts table (import_csv.import_file,*)
(* fix_duplicates, the dashboard's duplicate management).                  *)
(*                                                                         *)
(* Representation of a post text.  A text is a sequence of tokens; a token *)
(* is a string standing for a fixed piece of text.  The module's strings   *)
(* are ASCII, so a Japanese literal is written in romaji and the comment   *)
(* beside it gives the characters of the source:                           *)
(*   one-character tokens                                                  *)
(*     "3"     the digit 3            "?"     the question mark ?          *)
(*     "tsu"   つ                     "man"   万                           *)
(*     "nl"    the line break \n      "fire"  the emoji U+1F525            *)
(*     "a"     あ (matches no pattern) "watashi" 私       "]"  the bracket *)
(*   words (WordLen gives the number of characters)                        *)
(*     "wakaru" わかる  "desu" です  "anata" あなた  "yabai" やばい        *)
(*     "houhou" 方法  "seikou" 成功  "jissaini" 実際に  "mondai" 問題      *)
(*     "tool" ツール  "sokuhou" 速報  "hozon" 保存  "saiaku" 最悪          *)
(*     "baka" バカ  "jitsuha" 実は  "nenshu" 年収  "gesshu" 月収           *)
(*     "ika" 以下  "mazu" まず  "oshiete" 教えて  "jisseki" 実績           *)
(*     "himitsu" 秘密  "gazou" 画像                                        *)
(*     "url" https://example.com/p    "xurl" https://x.com/p               *)
(*   filler (FillLen gives the number of characters): "a38" is あ x 38 ... *)
(* A pattern of the source that is an alternation of literals is the set   *)
(* of its literals; Search(lits, text) is re.search.  Patterns with        *)
(* structure (anchors, character classes, digit+unit) are operators over   *)
(* the token sequence.                                                     *)
(***************************************************************************)
EXTENDS Integers, Sequences, FiniteSets, TLC

VARIABLES
    text,           \* scorers: the text argument
    post_datetime,  \* scorers: the post_datetime argument of v2
    called,         \* scorers: which function has been called on text
    result,         \* scorers: the value it returned
    df,             \* filter: the DataFrame read from the Excel file
    filter_called,  \* filter: which function has been called on df
    filter_result,  \* filter: the value it returned
    posts,          \* database: the committed rows of the posts table
    pending,        \* database: per connection, the rows inserted and not
                    \*           yet committed
    next_id,        \* database: the next AUTOINCREMENT id of posts
    sess,           \* database: per importing session, the locals of its
                    \*           import_file call
    prog,           \* ingestion: the script that runs, "buzz" for
                    \*            buzz_analyzer.fetch_buzz_posts, "account" for
                    \*            account_analyzer.main in API mode
    fetch_pc,       \* ingestion: the position of the script
    kw,             \* ingestion: the loop index i over keywords or
                    \*            TARGET_ACCOUNTS, from 1
    all_tweets,     \* ingestion: all_tweets of fetch_buzz_posts
    seen_tweet_ids, \* ingestion: seen_tweet_ids of fetch_buzz_posts
    user_tweets,    \* ingestion: len(all_tweets) of fetch_user_tweets
    cursor,         \* ingestion: cursor of fetch_user_tweets
    all_tweets_by_account,  \* ingestion: per account, the number of tweets
    all_analyses,   \* ingestion: the accounts that have an analysis
    response,       \* ingestion: the answer to the last requests.get
    fetched,        \* ingestion: history, every tweet a response carried
    failures,       \* ingestion: history, the failed requests.get calls of
                    \*            the current keyword or page
    sleeps,         \* ingestion: history, the time.sleep calls
    http_requests,  \* ingestion: history, the requests.get calls
    page_requests,  \* ingestion: history, the requests.get calls of the
                    \*            current fetch_user_tweets call
    data,           \* ingestion: data of fetch_user_tweets, the body of the
                    \*            last page that was read
    exit_state,     \* ingestion: whether sys.exit was called, and its code
    files,          \* ingestion: the files the script has written
    chart_in,       \* charts: the arguments of generate_all_charts and the
                    \*         chart functions that raise
    chart_out,      \* charts: the chart functions called and the value
                    \*         returned
    new_posts,      \* analyze_new: what analyze_new_posts read from the
                    \*              posts table
    account_tweets, \* account analysis: the tweets argument of
                    \*                   analyze_account
    analysis,       \* account analysis: the value analyze_account returned
    upload          \* dashboard: what the upload handler showed and did

scoreVars == <<text, post_datetime, called, result>>
filterVars == <<df, filter_called, filter_result>>
dbVars == <<posts, pending, next_id, sess>>
fetchVars ==
    <<prog, fetch_pc, kw, all_tweets, seen_tweet_ids, user_tweets, cursor,
      all_tweets_by_account, all_analyses, response, fetched, failures,
      sleeps, http_requests, page_requests, data, exit_state, files>>
chartVars == <<chart_in, chart_out>>
analysisVars == <<new_posts, account_tweets, analysis>>
ioVars == <<fetchVars, chartVars, analysisVars, upload>>
vars == <<scoreVars, filterVars, dbVars, ioVars>>

-----------------------------------------------------------------------------
(* Texts *)

MaxLen == 2

\* number of characters of the words
WordLen ==
    [wakaru |-> 3, desu |-> 2, anata |-> 3, yabai |-> 3, houhou |-> 2,
     seikou |-> 2, jissaini |-> 3, mondai |-> 2, tool |-> 3, sokuhou |-> 2,
     hozon |-> 2, saiaku |-> 2, baka |-> 2, jitsuha |-> 2, nenshu |-> 2,
     gesshu |-> 2, ika |-> 2, mazu |-> 2, oshiete |-> 3, jisseki |-> 2,
     himitsu |-> 2, gazou |-> 2, url |-> 21, xurl |-> 15]

\* number of characters of the filler tokens (runs of あ)
FillLen ==
    [a38 |-> 38, a78 |-> 78, a98 |-> 98, a128 |-> 128, a138 |-> 138,
     a168 |-> 168, a218 |-> 218, a298 |-> 298, a398 |-> 398, a50 |-> 50]

\* first character of the words whose first character a character class of
\* the source can match: 月収 starts with 月
WordHead == [gesshu |-> "tsuki"]

\* literals of the source that occur inside a longer token: やば in やばい
Inside == {<<"yaba", "yabai">>}

TokLen(t) ==
    IF t \in DOMAIN WordLen THEN WordLen[t]
    ELSE IF t \in DOMAIN FillLen THEN FillLen[t]
    ELSE 1

\* the first character of a token
FirstChar(t) == IF t \in DOMAIN WordHead THEN WordHead[t] ELSE t

RECURSIVE StrLen(_)
\* len(text)
StrLen(s) == IF s = <<>> THEN 0 ELSE TokLen(s[1]) + StrLen(Tail(s))

\* the literals occurring in s
Lits(s) ==
    LET toks == {s[i] : i \in DOMAIN s}
    IN  toks \cup {p[1] : p \in {q \in Inside : q[2] \in toks}}

\* re.search(l1|l2|..., s) for an alternation of literals
Search(lits, s) == Lits(s) \cap lits # {}

\* text.count("\n")
CountNL(s) == Cardinality({i \in DOMAIN s : s[i] = "nl"})

\* text.split("\n")[0]
FirstLine(s) ==
    LET nls == {i \in DOMAIN s : s[i] = "nl"}
    IN  IF nls = {} THEN s
        ELSE SubSeq(s, 1, (CHOOSE i \in nls : \A j \in nls : i <= j) - 1)

\* [0-9]
Digit == {"0", "1", "2", "3", "4", "5", "6", "7", "8", "9"}
\* [0-9０-９]
DigitWide == Digit \cup {"0w", "1w", "2w", "3w", "4w", "5w", "6w", "7w", "8w", "9w"}
\* the range ①-➓ (U+2460..U+2793); no token of the texts lies in it
CircledRange == {"maru1", "maru2", "maru3", "maru10neg"}
\* [？?]
QuestionMark == {"?", "?w"}

\* re.search(<one of first>+<one of second>, s): a character of `first`
\* directly followed by a character of `second`
Adjacent(first, second, s) ==
    \E i \in DOMAIN s : i < Len(s) /\ s[i] \in first /\ FirstChar(s[i + 1]) \in second

-----------------------------------------------------------------------------
(* analyze_posts.py: the classifiers shared by the scorers *)

\* faulty variant of classify_opening_pattern: the digit rule is tested
\* before the question mark
classify_opening_pattern_digit_first(first_line) ==
    IF first_line = <<>> THEN "sonota"
    ELSE IF \/ FirstChar(first_line[1]) \in Digit \cup CircledRange
            \/ Adjacent(Digit, {"tsu", "ko", "sen"}, first_line)
         THEN "suuji_teiji"
    ELSE IF Search(QuestionMark, first_line) THEN "gimonkei"
    ELSE IF Search({"ha?w", "majide", "yabai", "saiaku", "arienai"}, first_line)
         THEN "aori"
    ELSE IF Search({"wakaru", "kyoukan", "onaji", "aruaru"}, first_line)
         THEN "kyoukan"
    ELSE IF Search({"desu", "masu", "dearu", "da."}, first_line) THEN "danteikei"
    ELSE IF Search({"minasan", "anata", "minasan_k"}, first_line) THEN "yobikake"
    ELSE "sonota"

\* classify_opening_pattern(first_line); the classes are
\* 疑問形 gimonkei, 数字提示 suuji_teiji, 煽り aori, 共感 kyoukan,
\* 断定形 danteikei, 呼びかけ yobikake, その他 sonota
classify_opening_pattern(first_line) ==
    IF first_line = <<>> THEN "sonota"
    \* [？?]
    ELSE IF Search(QuestionMark, first_line) THEN "gimonkei"
    \* ^[0-9①-➓]|[0-9]+つ|[0-9]+個|[0-9]+選
    ELSE IF \/ FirstChar(first_line[1]) \in Digit \cup CircledRange
            \/ Adjacent(Digit, {"tsu", "ko", "sen"}, first_line)
         THEN "suuji_teiji"
    \* は？|まじで|やばい|最悪|ありえない
    ELSE IF Search({"ha?w", "majide", "yabai", "saiaku", "arienai"}, first_line)
         THEN "aori"
    \* わかる|共感|同じ|あるある
    ELSE IF Search({"wakaru", "kyoukan", "onaji", "aruaru"}, first_line)
         THEN "kyoukan"
    \* です|ます|である|だ。
    ELSE IF Search({"desu", "masu", "dearu", "da."}, first_line) THEN "danteikei"
    \* みなさん|あなた|皆さん
    ELSE IF Search({"minasan", "anata", "minasan_k"}, first_line) THEN "yobikake"
    ELSE "sonota"

\* classify_category(text); the categories are 実績報告系 jisseki_houkoku,
\* ノウハウ系 knowhow, 体験談系 taikendan, 問題提起系 mondai_teiki,
\* ツール紹介系 tool_shoukai, ニュース系 news, その他 sonota
classify_category(s) ==
    \* 達成|収益|稼げた|稼いだ|成功|実績|儲かった|〜万円|月収|年収|売上|報酬|利益
    IF Search({"tassei", "shuueki", "kasegeta", "kaseida", "seikou", "jisseki",
               "moukatta", "~manen", "gesshu", "nenshu", "uriage", "houshuu",
               "rieki"}, s)
    THEN "jisseki_houkoku"
    \* 方法|やり方|コツ|手順|ステップ|テクニック|攻略|マニュアル|ガイド|〜する方法|〜のやり方
    ELSE IF Search({"houhou", "yarikata", "kotsu", "tejun", "step", "technique",
                    "kouryaku", "manual", "guide", "~suruhouhou", "~noyarikata"}, s)
    THEN "knowhow"
    \* 私が|僕が|自分が|実際に|やってみた|試してみた|体験|経験|〜したら|〜してみた
    ELSE IF Search({"watashiga", "bokuga", "jibunga", "jissaini", "yattemita",
                    "tameshitemita", "taiken", "keiken", "~shitara", "~shitemita"}, s)
    THEN "taikendan"
    \* は？|問題|危険|注意|警告|【悲報】|〜すぎる|ヤバい|おかしい
    ELSE IF Search({"ha?w", "mondai", "kiken", "chuui", "keikoku", "[hihou]",
                    "~sugiru", "yabai_k", "okashii"}, s)
    THEN "mondai_teiki"
    \* ツール|アプリ|サービス|プラグイン|拡張機能|おすすめ|紹介|AI|Claude|ChatGPT|GPT
    ELSE IF Search({"tool", "appli", "service", "plugin", "kakuchoukinou",
                    "osusume", "shoukai", "AI", "Claude", "ChatGPT", "GPT"}, s)
    THEN "tool_shoukai"
    \* 発表|リリース|開始|開催|速報|最新|ニュース|公開
    ELSE IF Search({"happyou", "release", "kaishi", "kaisai", "sokuhou", "saishin",
                    "news", "koukai"}, s)
    THEN "news"
    ELSE "sonota"

\* has_story(text): any of the four story patterns
has_story(s) ==
    \* まず|次に|そして|最後に
    \/ Search({"mazu", "tsugini", "soshite", "saigoni"}, s)
    \* before|after|→
    \/ Search({"before", "after", "->"}, s)
    \* 昔|以前|最初|今では|現在
    \/ Search({"mukashi", "izen", "saisho", "imadeha", "genzai"}, s)
    \* 私|僕|自分|実際に|やってみた
    \/ Search({"watashi", "boku", "jibun", "jissaini", "yattemita"}, s)

\* the characters of EMOJI_PATTERN's class that occur in the texts
EmojiChar == {"fire"}

\* len(EMOJI_PATTERN.findall(text)): the pattern is [...]+, so a run of
\* adjacent emoji is one match
EmojiCount(s) ==
    Cardinality({i \in DOMAIN s :
        s[i] \in EmojiChar /\ (i = 1 \/ s[i - 1] \notin EmojiChar)})

-----------------------------------------------------------------------------
(* buzz_score_v2.py *)

\* sum of the values of a factors mapping
RECURSIVE SumOver(_, _)
SumOver(f, keys) ==
    IF keys = {} THEN 0
    ELSE LET k == CHOOSE x \in keys : TRUE
         IN  f[k] + SumOver(f, keys \ {k})

SumFactors(f) == SumOver(f, DOMAIN f)

\* faulty variant of pattern_scores_v2: 数字提示 raised to 30 without
\* lowering another factor
pattern_scores_v2_raised(pattern) ==
    CASE pattern = "suuji_teiji" -> 30
      [] pattern = "kyoukan"     -> 18
      [] pattern = "gimonkei"    -> 12
      [] pattern = "sonota"      -> 10
      [] pattern = "danteikei"   -> 8
      [] pattern = "aori"        -> 6
      [] pattern = "yobikake"    -> 5
      [] OTHER                   -> 10

\* pattern_scores.get(pattern, 10) of calculate_buzz_score_v2
pattern_scores_v2(pattern) ==
    CASE pattern = "suuji_teiji" -> 25
      [] pattern = "kyoukan"     -> 18
      [] pattern = "gimonkei"    -> 12
      [] pattern = "sonota"      -> 10
      [] pattern = "danteikei"   -> 8
      [] pattern = "aori"        -> 6
      [] pattern = "yobikake"    -> 5
      [] OTHER                   -> 10

\* faulty variant of length_points_v2: without the 81-130 override
length_points_v2_no_override(length) ==
    IF length <= 80 THEN 20
    ELSE IF length <= 170 THEN 17
    ELSE IF length <= 220 THEN 10
    ELSE IF length <= 300 THEN 4
    ELSE 2

\* the 文字数 factor of calculate_buzz_score_v2: the if/elif chain, then the
\* 81-130 override
length_points_v2(length) ==
    LET chain == IF length <= 80 THEN 20
                 ELSE IF length <= 170 THEN 17
                 ELSE IF length <= 220 THEN 10
                 ELSE IF length <= 300 THEN 4
                 ELSE 2
    IN  IF 81 <= length /\ length <= 130 THEN 13 ELSE chain

\* cat_scores.get(category, 5) of calculate_buzz_score_v2
cat_scores_v2(category) ==
    CASE category = "taikendan"       -> 15
      [] category = "mondai_teiki"    -> 15
      [] category = "tool_shoukai"    -> 10
      [] category = "knowhow"         -> 8
      [] category = "jisseki_houkoku" -> 7
      [] category = "sonota"          -> 5
      [] OTHER                        -> 5

\* [万円個件つ選ステップヶ月日時間分秒%％倍]
UnitV2 == {"man", "en", "ko", "ken", "tsu", "sen", "su_k", "te_k", "tsu_k_small",
           "pu_k", "ke_small", "tsuki", "hi", "ji", "kan", "fun", "byou", "%",
           "%w", "bai"}

\* faulty variant of number_points_v2: the +5 is added only inside
\* "if has_numbers"
number_points_v2_nested_bonus(s) ==
    LET has_numbers == Adjacent(DigitWide, UnitV2, s)
        has_money == \/ Adjacent(DigitWide, {"man", "en"}, s)
                     \/ Search({"gesshu", "nenshu", "uriage"}, s)
    IN  IF has_numbers THEN (IF has_money THEN 15 ELSE 10) ELSE 0

\* the 具体的数字 factor of calculate_buzz_score_v2
number_points_v2(s) ==
    LET \* [0-9０-９]+[万円個件つ選ステップヶ月日時間分秒%％倍]
        has_numbers == Adjacent(DigitWide, UnitV2, s)
        \* [0-9０-９]+万|[0-9０-９]+円|月収|年収|売上
        has_money == \/ Adjacent(DigitWide, {"man", "en"}, s)
                     \/ Search({"gesshu", "nenshu", "uriage"}, s)
        pts == (IF has_numbers THEN 10 ELSE 0) + (IF has_money THEN 5 ELSE 0)
    IN  IF pts < 15 THEN pts ELSE 15

\* the 簡潔さ factor of calculate_buzz_score_v2
brevity_points_v2(line_breaks) ==
    IF line_breaks <= 3 THEN 10
    ELSE IF line_breaks <= 7 THEN 7
    ELSE IF line_breaks <= 12 THEN 4
    ELSE 1

\* the 絵文字 factor of calculate_buzz_score_v2
emoji_points_v2(emoji_count) ==
    IF emoji_count = 0 THEN 10
    ELSE IF emoji_count <= 2 THEN 6
    ELSE 2

\* the post_datetime values: None, the empty string, a string without
\* h:mm, and strings such as "2026-02-15 09:30" whose first h:mm has hour h
DateTimes ==
    {[kind |-> "None"], [kind |-> "empty"], [kind |-> "no_time"]}
    \cup {[kind |-> "time", hour |-> h] : h \in {0, 9}}

\* the _hour entry: -1 unless re.search(r'(\d{1,2}):\d{2}', str(post_datetime))
hour_of(dt) == IF dt.kind = "time" THEN dt.hour ELSE -1

\* the running total of calculate_buzz_score_v2: total += s after each of
\* the seven scored factors; _hour is stored without being added
\* faulty variant of total_v2: the total += s of ストーリー性 is missing
total_v2_no_story(factors) ==
    factors.boutou_pattern + factors.mojisuu + factors.category
    + factors.gutaiteki_suuji + factors.kanketsusa + factors.emoji

\* faulty variant of total_v2: the hour of the post is added to the total
total_v2_with_hour(factors) ==
    factors.boutou_pattern + factors.mojisuu + factors.category
    + factors.gutaiteki_suuji + factors.kanketsusa + factors.emoji
    + factors.story + factors._hour

total_v2(factors) ==
    factors.boutou_pattern + factors.mojisuu + factors.category
    + factors.gutaiteki_suuji + factors.kanketsusa + factors.emoji
    + factors.story

\* calculate_buzz_score_v2(text, post_datetime); the factors are
\* 冒頭パターン boutou_pattern, 文字数 mojisuu, カテゴリ category,
\* 具体的数字 gutaiteki_suuji, 簡潔さ kanketsusa, 絵文字 emoji,
\* ストーリー性 story, _hour
calculate_buzz_score_v2(s, dt) ==
    LET factors ==
            [boutou_pattern  |-> pattern_scores_v2(classify_opening_pattern(FirstLine(s))),
             mojisuu         |-> length_points_v2(StrLen(s)),
             category        |-> cat_scores_v2(classify_category(s)),
             gutaiteki_suuji |-> number_points_v2(s),
             kanketsusa      |-> brevity_points_v2(CountNL(s)),
             emoji           |-> emoji_points_v2(EmojiCount(s)),
             story           |-> IF has_story(s) THEN 5 ELSE 0,
             _hour           |-> hour_of(dt)]
    IN  [total_score |-> total_v2(factors), factors |-> factors]

-----------------------------------------------------------------------------
(* analyze_posts.py: calculate_buzz_score (v1) *)

Max(a, b) == IF a >= b THEN a ELSE b
Min(a, b) == IF a <= b THEN a ELSE b

\* number of the conditions of a set that hold
CountTrue(bs) == Cardinality({i \in DOMAIN bs : bs[i]})

\* a character starts a line (re.MULTILINE ^)
LineStart(s, i) == i = 1 \/ s[i - 1] = "nl"

\* \s
Whitespace == {"nl", " ", "tab"}

\* faulty variant of pattern_scores_v1: 断定形 is given 3 points
pattern_scores_v1_low_assertive(pattern) ==
    CASE pattern = "suuji_teiji" -> 20
      [] pattern = "gimonkei"    -> 16
      [] pattern = "aori"        -> 14
      [] pattern = "kyoukan"     -> 14
      [] pattern = "yobikake"    -> 12
      [] pattern = "danteikei"   -> 3
      [] pattern = "sonota"      -> 5
      [] OTHER                   -> 5

\* pattern_scores.get(pattern, 5) of calculate_buzz_score
pattern_scores_v1(pattern) ==
    CASE pattern = "suuji_teiji" -> 20
      [] pattern = "gimonkei"    -> 16
      [] pattern = "aori"        -> 14
      [] pattern = "kyoukan"     -> 14
      [] pattern = "yobikake"    -> 12
      [] pattern = "danteikei"   -> 8
      [] pattern = "sonota"      -> 5
      [] OTHER                   -> 5

\* the defaults score_params.get("optimal_min", 100), ("optimal_max", 300)
optimal_min == 100
optimal_max == 300

\* faulty variant of length_points_v1: without the max(3, ...) floor
length_points_v1_no_floor(length) ==
    IF optimal_min <= length /\ length <= optimal_max THEN 15
    ELSE IF length < optimal_min THEN (15 * length) \div optimal_min
    ELSE (15 * optimal_max) \div length

\* the テキスト最適化 factor; int(x / y) of non-negative integers is x \div y
length_points_v1(length) ==
    IF optimal_min <= length /\ length <= optimal_max THEN 15
    ELSE IF length < optimal_min THEN Max(3, (15 * length) \div optimal_min)
    ELSE Max(3, (15 * optimal_max) \div length)

\* the default cat_scores of calculate_buzz_score, .get(category, 5)
cat_scores_v1(category) ==
    CASE category = "jisseki_houkoku" -> 15
      [] category = "knowhow"         -> 13
      [] category = "mondai_teiki"    -> 12
      [] category = "taikendan"       -> 11
      [] category = "tool_shoukai"    -> 10
      [] category = "news"            -> 8
      [] category = "sonota"          -> 5
      [] OTHER                        -> 5

\* the 感情トリガー factor: min(10, emotion_count * 4)
emotion_points_v1(s) ==
    LET emotion_count == CountTrue(<<
            \* 期待: チャンス|可能性|稼げる|儲かる|成功|達成|実現|できる
            Search({"chance", "kanousei", "kasegeru", "moukaru", "seikou",
                    "tassei", "jitsugen", "dekiru"}, s),
            \* 驚き: まさか|びっくり|驚き|すごい|やばい
            Search({"masaka", "bikkuri", "odoroki", "sugoi", "yabai"}, s),
            \* 共感: わかる|そうそう|あるある|同じ|私も
            Search({"wakaru", "sousou", "aruaru", "onaji", "watashimo"}, s),
            \* 恐怖: 危険|怖い|リスク|失敗|損|ヤバい|最悪
            Search({"kiken", "kowai", "risk", "shippai", "son", "yabai_k",
                    "saiaku"}, s) >>)
    IN  Min(10, emotion_count * 4)

\* has_cta of calculate_buzz_score: any of the five CTA patterns
has_cta_v1(s) ==
    \/ Search({"iine", "thumbsup"}, s)                  \* いいね|👍
    \/ Search({"hozon", "bookmark"}, s)                 \* 保存|ブックマーク
    \/ Search({"follow_k"}, s)                          \* フォロー
    \/ Search({"repost", "RT", "share", "kakusan"}, s)  \* リポスト|RT|シェア|拡散
    \/ Search({"comment", "henshin", "oshiete"}, s)     \* コメント|返信|教えて

\* the 絵文字・書式 factor
emoji_points_v1(emoji_count) ==
    IF 1 <= emoji_count /\ emoji_count <= 3 THEN 10
    ELSE IF emoji_count = 0 THEN 4
    ELSE 6

\* bullet_pattern ^[・\-\*①-➓1-9]\s with re.MULTILINE
has_bullets_v1(s) ==
    \E i \in DOMAIN s :
        /\ LineStart(s, i)
        /\ s[i] \in {"nakaguro", "-", "*"} \cup CircledRange \cup (Digit \ {"0"})
        /\ i < Len(s)
        /\ FirstChar(s[i + 1]) \in Whitespace

\* the 読みやすさ factor
readability_points_v1(s) ==
    LET line_breaks == CountNL(s)
    IN  (IF 3 <= line_breaks /\ line_breaks <= 10 THEN 5
         ELSE IF line_breaks > 0 THEN 3 ELSE 0)
        + (IF has_bullets_v1(s) THEN 5 ELSE 0)

\* calculate_buzz_score(text) with score_params = None; the factors are
\* 冒頭パターン boutou_pattern, テキスト最適化 text_saitekika, カテゴリ category,
\* 感情トリガー kanjou_trigger, CTA, ストーリー性 story, 絵文字・書式 emoji_shoshiki,
\* 読みやすさ yomiyasusa
calculate_buzz_score(s) ==
    LET factors ==
            [boutou_pattern |-> pattern_scores_v1(classify_opening_pattern(FirstLine(s))),
             text_saitekika |-> length_points_v1(StrLen(s)),
             category       |-> cat_scores_v1(classify_category(s)),
             kanjou_trigger |-> emotion_points_v1(s),
             CTA            |-> IF has_cta_v1(s) THEN 10 ELSE 0,
             story          |-> IF has_story(s) THEN 10 ELSE 0,
             emoji_shoshiki |-> emoji_points_v1(EmojiCount(s)),
             yomiyasusa     |-> readability_points_v1(s)]
        \* total += s after each factor
        total == factors.boutou_pattern + factors.text_saitekika + factors.category
                 + factors.kanjou_trigger + factors.CTA + factors.story
                 + factors.emoji_shoshiki + factors.yomiyasusa
    IN  [total_score |-> total, factors |-> factors]

-----------------------------------------------------------------------------
(* algorithm_analysis.py *)

\* \d: the ASCII and the full-width digits
DigitUnicode == DigitWide

\* re.search(<class>$, s) for one-character tokens: the text ends with a
\* character of the class, or with one followed by the final line break
EndsWith(class, s) ==
    \/ s # <<>> /\ s[Len(s)] \in class
    \/ Len(s) > 1 /\ s[Len(s)] = "nl" /\ s[Len(s) - 1] \in class

\* detect_thread_structure(text)
detect_thread_structure(s) ==
    [is_thread_starter |->
        \* [🧵スレッド]: one of the characters 🧵 ス レ ッ ド
        \/ Search({"thread_emoji", "su_k", "re_k", "tsu_k_small", "do_k"}, s)
        \* (1/\d|①|1\.)
        \/ \E i \in DOMAIN s :
               /\ s[i] = "1" /\ i < Len(s)
               /\ \/ s[i + 1] = "."
                  \/ s[i + 1] = "/" /\ i + 1 < Len(s) /\ s[i + 2] \in DigitUnicode
        \/ Search({"maru1"}, s)
        \* (以下|↓|👇|⬇)
        \/ Search({"ika", "arrow_down", "point_down", "arrow_down_heavy"}, s)
        \* (長くなるので|連投します|スレにします)
        \/ Search({"nagakunarunode", "rentoushimasu", "surenishimasu"}, s),
     has_continuation_hint |->
        \* (続く|つづく|続きは|次は)
        \/ Search({"tsuzuku_k", "tsuzuku", "tsuzukiha", "tsugiha"}, s)
        \* (まず|最初に|第一に)
        \/ Search({"mazu", "saishoni", "daiichini"}, s)
        \* \.{3,}$|…$
        \/ EndsWith({"...", "ellipsis"}, s),
     invites_conversation |->
        \* [\?？]$
        \/ EndsWith(QuestionMark, s)
        \* (どう思|教えて|みんなは|意見)
        \/ Search({"douomo", "oshiete", "minnaha", "iken"}, s)
        \* (あなたは|君は|皆さんは)
        \/ Search({"anataha", "kimiha", "minasanha_k"}, s)]

\* the domain ([^\s/]+) of the URL tokens
UrlDomain == [url |-> "example.com", xurl |-> "x.com"]

x_domains == {"x.com", "twitter.com", "t.co", "pbs.twimg.com"}

\* detect_external_links(text): url_pattern.findall gives the domains; a
\* domain is an X link when one of x_domains occurs in it
detect_external_links(s) ==
    LET urls == {UrlDomain[s[i]] : i \in {j \in DOMAIN s : s[j] \in DOMAIN UrlDomain}}
        is_x(u) == \E d \in x_domains : d = u \/ <<d, u>> \in Inside
    IN  [has_external_link |-> \E u \in urls : ~is_x(u),
         has_x_link        |-> \E u \in urls : is_x(u)]

\* analyze_tone(text).overall; 建設的 kensetsuteki, ポジティブ positive,
\* 中立 chuuritsu, 煽り（建設的） aori_kensetsuteki, ネガティブ negative,
\* 攻撃的 kougekiteki
analyze_tone(s) ==
    LET positive == CountTrue(<<
            \* 嬉しい|楽しい|幸せ|最高|素晴らしい|感謝|ありがとう
            Search({"ureshii", "tanoshii", "shiawase", "saikou", "subarashii",
                    "kansha", "arigatou"}, s),
            \* おすすめ|良い|好き|素敵|神|便利|助かる
            Search({"osusume", "yoi", "suki", "suteki", "kami", "benri",
                    "tasukaru"}, s),
            \* 成功|達成|実現|できた|やった|頑張
            Search({"seikou", "tassei", "jitsugen", "dekita", "yatta", "ganba"}, s),
            \* ワクワク|期待|楽しみ|面白い
            Search({"wakuwaku", "kitai", "tanoshimi", "omoshiroi"}, s) >>)
        constructive == CountTrue(<<
            \* 方法|やり方|コツ|ステップ|手順|始め方
            Search({"houhou", "yarikata", "kotsu", "step", "tejun", "hajimekata"}, s),
            \* 解決|改善|対策|提案|アドバイス
            Search({"kaiketsu", "kaizen", "taisaku", "teian", "advice"}, s),
            \* 学んだ|気づいた|発見|わかった|理解
            Search({"mananda", "kizuita", "hakken", "wakatta", "rikai"}, s),
            \* 共有|シェア|紹介|まとめ|レビュー
            Search({"kyouyuu", "share", "shoukai", "matome", "review"}, s),
            \* 経験|体験|実践|試し|チャレンジ
            Search({"keiken", "taiken", "jissen", "tameshi", "challenge"}, s) >>)
        negative == CountTrue(<<
            \* 最悪|ひどい|つらい|辛い|苦しい|悲しい
            Search({"saiaku", "hidoi", "tsurai", "tsurai_k", "kurushii",
                    "kanashii"}, s),
            \* 失敗|後悔|損|無駄|意味ない
            Search({"shippai", "koukai_regret", "son", "muda", "iminai"}, s),
            \* 不安|怖い|心配|恐ろしい
            Search({"fuan", "kowai", "shinpai", "osoroshii"}, s) >>)
        aggressive == CountTrue(<<
            \* バカ|アホ|クソ|死ね|消えろ|うざい
            Search({"baka", "aho", "kuso", "shine", "kiero", "uzai"}, s),
            \* 炎上|叩[かき]|批判|攻撃|許さない|ふざけるな
            Search({"enjou", "tataka", "tataki", "hihan", "kougeki", "yurusanai",
                    "fuzakeruna"}, s),
            \* 嘘つき|詐欺|騙[しさ]|裏切り
            Search({"usotsuki", "sagi", "damashi", "damasa", "uragiri"}, s) >>)
        \* max(scores, key=scores.get): the first key, in the order positive,
        \* constructive, negative, aggressive, neutral, that has the largest score
        top == Max(Max(positive, constructive), Max(negative, aggressive))
        max_key == IF positive = top THEN "positive"
                   ELSE IF constructive = top THEN "constructive"
                   ELSE IF negative = top THEN "negative"
                   ELSE "aggressive"
    IN  IF top = 0 THEN "chuuritsu"
        ELSE IF max_key = "constructive" THEN "kensetsuteki"
        ELSE IF max_key = "positive" THEN "positive"
        ELSE IF max_key = "negative" /\ constructive > 0 THEN "aori_kensetsuteki"
        ELSE IF max_key = "negative" THEN "negative"
        ELSE "kougekiteki"

\* [万円個件つ%倍]
UnitDwell == {"man", "en", "ko", "ken", "tsu", "%", "bai"}

\* estimate_dwell_time_score(text)
estimate_dwell_time_score(s) ==
    LET length == StrLen(s)
        line_count == CountNL(s)
        \* len(re.findall(r'\d+[万円個件つ%倍]', text))
        number_count == Cardinality({i \in DOMAIN s :
            i < Len(s) /\ s[i] \in DigitUnicode /\ FirstChar(s[i + 1]) \in UnitDwell})
        score ==
            (IF length >= 400 THEN 6
             ELSE IF length >= 250 THEN 5
             ELSE IF length >= 150 THEN 3
             ELSE IF length >= 80 THEN 2
             ELSE 1)
          + (IF 3 <= line_count /\ line_count <= 10 THEN 3
             ELSE IF line_count > 10 THEN 2
             ELSE 1)
            \* ^[・\-✅☑①②③④⑤\d+[\.\)）]] with re.MULTILINE: a line that starts
            \* with a character of the class followed by "]"
          + (IF \E i \in DOMAIN s :
                    /\ LineStart(s, i) /\ i < Len(s)
                    /\ s[i] \in {"nakaguro", "-", "check", "ballot", "maru1",
                                 "maru2", "maru3", "maru4", "maru5", "+", "[",
                                 ".", ")", ")w"} \cup DigitUnicode
                    /\ s[i + 1] = "]"
             THEN 3 ELSE 0)
          + (IF has_story(s) THEN 2 ELSE 0)
          + (IF number_count >= 3 THEN 3 ELSE IF number_count >= 1 THEN 1 ELSE 0)
            \* (衝撃|驚|ヤバ|やば|マジで|ガチで|信じられない)
          + (IF Search({"shougeki", "odoro", "yaba_k", "yaba", "majide_k",
                        "gachide", "shinjirarenai"}, s) THEN 2 ELSE 0)
            \* (画像|写真|スクショ|動画|📸|📹|🖼)
          + (IF Search({"gazou", "shashin", "sukusho", "douga", "camera_flash",
                        "video_camera", "framed_picture"}, s) THEN 1 ELSE 0)
    IN  Min(20, score)

\* (僕|私|俺).{0,10}(実は|正直|ぶっちゃけ): at most ten characters, none a
\* line break, between the pronoun and the disclosure
SelfDisclosure(s) ==
    \E i \in DOMAIN s : \E j \in DOMAIN s :
        /\ i < j
        /\ s[i] \in {"boku", "watashi", "ore"}
        /\ s[j] \in {"jitsuha", "shoujiki", "bucchake"}
        /\ StrLen(SubSeq(s, i + 1, j - 1)) <= 10
        /\ \A k \in (i + 1)..(j - 1) : s[k] # "nl"

\* faulty variant of clamp_total: min(100, total) only
clamp_total_upper_only(total) == Min(100, total)

\* total = max(0, min(100, total))
clamp_total(total) == Max(0, Min(100, total))

\* calculate_algorithm_score(text); the factors are リプライ誘発力 reply,
\* 滞在時間 dwell, スレッド・会話 thread, トーン tone, ブックマーク誘発 bookmark,
\* 外部リンク link, プロフクリック誘発 profile, 早期反応性 early
calculate_algorithm_score(s) ==
    LET reply_triggers ==
              (IF Search(QuestionMark, s) THEN 3 ELSE 0)          \* [\?？]
              \* (どう思|教えて|みんなは|皆さんは|あなたは|聞きたい|知りたい)
            + (IF Search({"douomo", "oshiete", "minnaha", "minasanha_k", "anataha",
                          "kikitai", "shiritai"}, s) THEN 4 ELSE 0)
              \* (vs|VS|それとも|どっち|AかBか|賛否|議論)
            + (IF Search({"vs", "VS", "soretomo", "docchi", "AkaBka", "sanpi",
                          "giron"}, s) THEN 3 ELSE 0)
              \* (同じ人|経験ある|やったことある|わかる人|共感)
            + (IF Search({"onajihito", "keikenaru", "yattakotoaru", "wakaruhito",
                          "kyoukan"}, s) THEN 2 ELSE 0)
              \* (正直|ぶっちゃけ|実は|告白|本音)
            + (IF Search({"shoujiki", "bucchake", "jitsuha", "kokuhaku", "honne"}, s)
               THEN 2 ELSE 0)
              \* (かもしれない|知らんけど|異論は認める|怒られそう)
            + (IF Search({"kamoshirenai", "shirankedo", "ironhamitomeru",
                          "okoraresou"}, s) THEN 2 ELSE 0)
        thread_info == detect_thread_structure(s)
        tone == analyze_tone(s)
        bookmark_triggers ==
              \* (保存|ブクマ|ブックマーク|メモ|後で)
              (IF Search({"hozon", "bukuma", "bookmark", "memo", "atode"}, s)
               THEN 3 ELSE 0)
              \* (選|つのコツ|つの方法|ステップ|手順|まとめ|一覧|チェックリスト)
            + (IF Search({"sen", "tsunokotsu", "tsunohouhou", "step", "tejun",
                          "matome", "ichiran", "checklist"}, s) THEN 3 ELSE 0)
              \* \d+[万円個件つ%]
            + (IF Adjacent(DigitUnicode, {"man", "en", "ko", "ken", "tsu", "%"}, s)
               THEN 2 ELSE 0)
              \* (テンプレ|フレームワーク|型|フォーマット|雛形)
            + (IF Search({"tenpure", "framework", "kata", "format", "hinagata"}, s)
               THEN 3 ELSE 0)
        link_info == detect_external_links(s)
        profile_triggers ==
              \* (プロフ|固ツイ|固定ツイート|自己紹介)
              (IF Search({"purofu", "kotsui", "koteitweet", "jikoshoukai"}, s)
               THEN 2 ELSE 0)
              \* (年目|月目|万フォロワー|実績|経歴|専門)
            + (IF Search({"nenme", "tsukime", "manfollower", "jisseki", "keireki",
                          "senmon"}, s) THEN 2 ELSE 0)
              \* (秘密|内緒|ここだけ|限定|非公開)
            + (IF Search({"himitsu", "naisho", "kokodake", "gentei", "hikoukai"}, s)
               THEN 2 ELSE 0)
            + (IF SelfDisclosure(s) THEN 2 ELSE 0)
        first_line == FirstLine(s)
        early_triggers ==
              \* len(first_line) <= 40 and [！!？?] in first_line
              (IF StrLen(first_line) <= 40 /\ Search({"!w", "!", "?w", "?"}, first_line)
               THEN 2 ELSE 0)
              \* (マジで|ガチで|ヤバい|やばい|すごい|神|最強|衝撃)
            + (IF Search({"majide_k", "gachide", "yabai_k", "yabai", "sugoi", "kami",
                          "saikyou", "shougeki"}, s) THEN 2 ELSE 0)
            + (IF StrLen(s) <= 140 THEN 1 ELSE 0)
        factors ==
            [reply    |-> Min(25, reply_triggers * 3),
             dwell    |-> Min(20, estimate_dwell_time_score(s)),
             thread   |-> IF thread_info.is_thread_starter THEN 15
                          ELSE IF thread_info.has_continuation_hint THEN 10
                          ELSE IF thread_info.invites_conversation THEN 8
                          ELSE 0,
             tone     |-> CASE tone = "kensetsuteki"      -> 15
                            [] tone = "positive"          -> 12
                            [] tone = "chuuritsu"         -> 8
                            [] tone = "aori_kensetsuteki" -> 10
                            [] tone = "negative"          -> 3
                            [] OTHER                      -> 0,
             bookmark |-> Min(10, bookmark_triggers * 2),
             link     |-> IF link_info.has_external_link THEN -15
                          ELSE IF link_info.has_x_link THEN -3
                          ELSE 0,
             profile  |-> Min(10, profile_triggers * 2),
             early    |-> Min(5, early_triggers * 2)]
        \* total += s after each factor
        total == factors.reply + factors.dwell + factors.thread + factors.tone
                 + factors.bookmark + factors.link + factors.profile + factors.early
    IN  [total_score |-> clamp_total(total), factors |-> factors]

-----------------------------------------------------------------------------
(* The scorers as a state machine: a text is chosen, then one of the       *)
(* functions is called on it.                                              *)

\* the tokens the enumerated part of a text is made of
Alphabet == {"3", "tsu", "man", "?", "nl", "fire", "a", "wakaru", "desu",
             "yabai", "seikou", "jissaini", "url", "baka"}

RECURSIVE SeqsUpTo(_, _)
\* the sequences over S of length at most n
SeqsUpTo(S, n) ==
    IF n = 0 THEN {<<>>}
    ELSE LET shorter == SeqsUpTo(S, n - 1)
         IN  shorter \cup {Append(q, x) : q \in shorter, x \in S}

\* what follows the enumerated part: nothing, filler up to each length
\* bucket of the three scorers, single words, and two longer posts
Tails ==
    {<<>>, <<"a38">>, <<"a78">>, <<"a98">>, <<"a128">>, <<"a138">>, <<"a168">>,
     <<"a218">>, <<"a298">>, <<"a398">>,
     <<"jissaini">>, <<"anata">>, <<"nenshu">>,
     <<"seikou", "yabai", "saiaku", "hozon", "watashi", "fire", "nl", "nl", "a98">>,
     <<"?", "nl", "3", "]", "nl", "ika", "houhou", "hozon", "oshiete", "watashi",
       "jitsuha", "jisseki", "himitsu", "yabai", "gazou", "3", "man", "3", "man",
       "3", "man", "nl", "a398">>}

Texts == {p \o t : p \in SeqsUpTo(Alphabet, MaxLen), t \in Tails}

NoResult == [total_score |-> -1, factors |-> <<>>]
NoDateTime == [kind |-> "None"]

\* nothing has been scored
ScoreIdle ==
    /\ post_datetime = NoDateTime
    /\ called = "none"
    /\ result = NoResult

\* no DataFrame has been filtered
FilterIdle ==
    /\ filter_called = "none"
    /\ filter_result = <<>>

Sessions == {"s1", "s2"}

\* import_file is not running in the session
IdleSession ==
    [pc |-> "idle", cols |-> {}, rows |-> <<>>, i |-> 1, inserted |-> 0,
     skipped |-> 0]

\* the database after init_db: the posts table is empty
DbEmpty ==
    /\ posts = {}
    /\ pending = [s \in Sessions |-> {}]
    /\ next_id = 1
    /\ sess = [s \in Sessions |-> IdleSession]

NoExit == [called |-> FALSE, code |-> 0]
NoResponse == [kind |-> "none"]
NoCursor == "None"
NoData ==
    [status |-> "none", tweets |-> 0, has_next_page |-> FALSE,
     next_cursor |-> NoCursor]

\* neither ingestion script has started
FetchIdle ==
    /\ prog = "none"
    /\ fetch_pc = "idle"
    /\ kw = 1
    /\ all_tweets = <<>>
    /\ seen_tweet_ids = {}
    /\ user_tweets = 0
    /\ cursor = NoCursor
    /\ all_tweets_by_account = <<>>
    /\ all_analyses = <<>>
    /\ response = NoResponse
    /\ fetched = {}
    /\ failures = 0
    /\ sleeps = 0
    /\ http_requests = 0
    /\ page_requests = 0
    /\ data = NoData
    /\ exit_state = NoExit
    /\ files = {}

NoCharts == [called |-> FALSE]

\* generate_all_charts has not been called
ChartIdle ==
    /\ chart_in = NoCharts
    /\ chart_out = NoCharts

NotCalled == [called |-> FALSE]

\* analyze_new_posts has not been called
NewIdle == new_posts = NotCalled

\* analyze_account has not been called
AccountIdle ==
    /\ account_tweets = <<>>
    /\ analysis = NotCalled

\* no file has been uploaded to the dashboard
UploadIdle == upload = NotCalled

AnalysisIdle ==
    /\ NewIdle
    /\ AccountIdle
    /\ UploadIdle

ScoreInit ==
    /\ text \in Texts
    /\ ScoreIdle
    /\ df = <<>>
    /\ FilterIdle
    /\ DbEmpty
    /\ FetchIdle
    /\ ChartIdle
    /\ AnalysisIdle

\* calculate_buzz_score_v2(text, post_datetime)
CallBuzzScoreV2 ==
    /\ called = "none"
    /\ \E dt \in DateTimes :
        /\ post_datetime' = dt
        /\ result' = calculate_buzz_score_v2(text, dt)
    /\ called' = "calculate_buzz_score_v2"
    /\ UNCHANGED <<text, filterVars, dbVars, ioVars>>

\* calculate_buzz_score(text)
CallBuzzScore ==
    /\ called = "none"
    /\ result' = calculate_buzz_score(text)
    /\ called' = "calculate_buzz_score"
    /\ UNCHANGED <<text, post_datetime, filterVars, dbVars, ioVars>>

\* calculate_algorithm_score(text)
CallAlgorithmScore ==
    /\ called = "none"
    /\ result' = calculate_algorithm_score(text)
    /\ called' = "calculate_algorithm_score"
    /\ UNCHANGED <<text, post_datetime, filterVars, dbVars, ioVars>>

ScoreNext == CallBuzzScoreV2 \/ CallBuzzScore \/ CallAlgorithmScore

SpecScore == ScoreInit /\ [][ScoreNext]_vars

-----------------------------------------------------------------------------
(* Properties of the scorers *)

V2 == "calculate_buzz_score_v2"
V1 == "calculate_buzz_score"
ALGO == "calculate_algorithm_score"

\* C1: whatever the text and the post_datetime, the total_score returned by
\* calculate_buzz_score_v2 and by calculate_buzz_score (default
\* score_params) is an integer between 0 and 100.
C1_TotalScoreInRange ==
    called \in {V1, V2} => result.total_score \in 0..100

\* C1 is about the ends of the range: a text that scores 100
C1_Witness ==
    /\ called = V2
    /\ result.total_score = 100

\* C2: calculate_algorithm_score returns max(0, min(100, S)) for S the sum
\* of the eight factors, every factor is within its cap (link is one of
\* -15, -3, 0), and so total_score is in 0..100 also when S is negative.
C2_AlgorithmScoreClamped ==
    called = ALGO =>
        LET f == result.factors
            S == SumFactors(f)
        IN  /\ DOMAIN f = {"reply", "dwell", "thread", "tone", "bookmark", "link",
                           "profile", "early"}
            /\ result.total_score = (IF S < 0 THEN 0 ELSE IF S > 100 THEN 100 ELSE S)
            /\ f.reply <= 25 /\ f.dwell <= 20 /\ f.thread <= 15 /\ f.tone <= 15
            /\ f.bookmark <= 10 /\ f.link \in {-15, -3, 0} /\ f.profile <= 10
            /\ f.early <= 5
            /\ result.total_score \in 0..100

\* the link penalty makes the sum negative and the score is 0
C2_Witness ==
    /\ called = ALGO
    /\ SumFactors(result.factors) < 0
    /\ result.factors.link = -15
    /\ result.total_score = 0

\* C3 as stated: the sum of all the values of the factors mapping of
\* calculate_buzz_score_v2 equals total_score.
C3_AllFactorsSumToTotal ==
    called = V2 => SumFactors(result.factors) = result.total_score

\* C3, amended: the sum of the values of the factors mapping other than
\* "_hour" equals total_score (so the sum of all of them is total_score
\* plus _hour, which is -1 when there is no parseable time).
C3_ScoredFactorsSumToTotal ==
    called = V2 =>
        /\ SumOver(result.factors, DOMAIN result.factors \ {"_hour"})
               = result.total_score
        /\ SumFactors(result.factors) = result.total_score + result.factors._hour
        /\ post_datetime.kind # "time" => result.factors._hour = -1

\* a v2 result whose _hour entry is not 0
C3_Witness ==
    /\ called = V2
    /\ result.factors._hour \in {-1, 9}
    /\ result.factors.story = 5

\* the results for the empty string
EmptyV1 ==
    [boutou_pattern |-> 5, text_saitekika |-> 3, category |-> 5,
     kanjou_trigger |-> 0, CTA |-> 0, story |-> 0, emoji_shoshiki |-> 4,
     yomiyasusa |-> 0]
EmptyV2 ==
    [boutou_pattern |-> 10, mojisuu |-> 20, category |-> 5, gutaiteki_suuji |-> 0,
     kanketsusa |-> 10, emoji |-> 10, story |-> 0]
EmptyAlgo ==
    [reply |-> 0, dwell |-> 2, thread |-> 0, tone |-> 8, bookmark |-> 0,
     link |-> 0, profile |-> 0, early |-> 2]

\* the factors of the empty string that are the least value the factor takes
LeastV2 == {"category", "gutaiteki_suuji", "story"}
LeastAlgo == {"reply", "dwell", "thread", "bookmark", "profile"}

EmptyOf(fn) == IF fn = V1 THEN EmptyV1 ELSE IF fn = V2 THEN EmptyV2 ELSE EmptyAlgo

\* C5 as stated: in each scorer no factor of the empty string is above the
\* least value of that factor, i.e. above the value any text gets.
C5_EmptyStringAtMinimum ==
    called \in {V1, V2, ALGO} =>
        \A k \in DOMAIN EmptyOf(called) : EmptyOf(called)[k] <= result.factors[k]

\* C5, amended: the empty string is scored by every scorer; in v1 every
\* factor gets the least value of that factor (5, 3, 5, 0, 0, 0, 4, 0); in v2
\* only category, gutaiteki_suuji and story do, while boutou_pattern is 10
\* and mojisuu, kanketsusa, emoji are at their maximum (20, 10, 10); in the
\* algorithm score reply, dwell, thread, bookmark and profile do, while
\* tone is 8, link is 0 (its largest value) and early is 2.
C5_EmptyStringScores ==
    /\ (text = <<>> /\ called = V1) => result.factors = EmptyV1
    /\ (text = <<>> /\ called = V2) =>
           \A k \in DOMAIN EmptyV2 : result.factors[k] = EmptyV2[k]
    /\ (text = <<>> /\ called = ALGO) => result.factors = EmptyAlgo
    /\ called = V1 => \A k \in DOMAIN EmptyV1 : EmptyV1[k] <= result.factors[k]
    /\ called = V2 => \A k \in LeastV2 : EmptyV2[k] <= result.factors[k]
    /\ called = ALGO => \A k \in LeastAlgo : EmptyAlgo[k] <= result.factors[k]

\* the empty string scored by v2, with mojisuu at its maximum
C5_Witness ==
    /\ text = <<>>
    /\ called = V2
    /\ result.factors.mojisuu = 20
    /\ result.total_score = 55

\* the digit rule and the question rule of the opening classification,
\* stated on the first line
DigitRule(first_line) ==
    /\ first_line # <<>>
    /\ \/ first_line[1] = "3"
       \/ \E i \in 1..(Len(first_line) - 1) :
              first_line[i] = "3" /\ first_line[i + 1] = "tsu"
QuestionRule(first_line) == \E i \in DOMAIN first_line : first_line[i] = "?"

\* C10 as stated: a first line that matches the digit rule is classified
\* 数字提示 (25 points in v2, 20 in v1) even when it contains a question mark.
C10_DigitRuleFirst ==
    (called \in {V1, V2} /\ DigitRule(FirstLine(text))) =>
        result.factors.boutou_pattern = (IF called = V2 THEN 25 ELSE 20)

\* C10, amended: the question mark has priority.  A first line containing
\* a question mark is classified 疑問形 (12 points in v2, 16 in v1) even
\* when it matches the digit rule; 数字提示 is chosen exactly when the digit
\* rule matches and the first line has no question mark.
C10_QuestionRuleFirst ==
    called \in {V1, V2} =>
        LET first_line == FirstLine(text)
            s == result.factors.boutou_pattern
        IN  /\ QuestionRule(first_line) => s = (IF called = V2 THEN 12 ELSE 16)
            /\ (DigitRule(first_line) /\ ~QuestionRule(first_line))
                   <=> s = (IF called = V2 THEN 25 ELSE 20)

\* a first line with a leading digit and a question mark, scored as 疑問形
C10_Witness ==
    /\ called = V2
    /\ DigitRule(FirstLine(text))
    /\ QuestionRule(FirstLine(text))
    /\ result.factors.boutou_pattern = 12

-----------------------------------------------------------------------------
(* analyze_posts.filter_data *)
(* A DataFrame is the sequence of its rows in their current order; a row   *)
(* keeps its index label through filtering and sorting.                    *)

MaxRows == 3

\* 著作権 版権 海賊版 収益化停止 収益化が停止 剥奪 侵害 インプレゾンビ
exclude_keywords ==
    {"chosakuken", "hanken", "kaizokuban", "shuuekika_teishi",
     "shuuekika_ga_teishi", "hakudatsu", "shingai", "impzombie"}

\* should_exclude(text): some keyword is a substring of the text
should_exclude(t) == Search(exclude_keywords, t)

RECURSIVE PickRows(_, _)
\* d[mask]: the rows of d at the positions in keep, in the order of d
PickRows(d, keep) ==
    IF d = <<>> THEN <<>>
    ELSE LET n == Len(d)
             front == PickRows(SubSeq(d, 1, n - 1), keep)
         IN  IF n \in keep THEN Append(front, d[n]) ELSE front

\* df[~df["本文"].apply(should_exclude)].copy()
filter_keywords(d) ==
    PickRows(d, {i \in DOMAIN d : ~should_exclude(d[i].text)})

\* d.sort_values("いいね数", ascending=False): the rows by descending like
\* count.  The default sort kind is not stable, so rows with equal like
\* counts come out in any order: the set of the possible results.
sort_values(d) ==
    LET n == Len(d)
        perms == {p \in [1..n -> 1..n] : \A i, j \in 1..n : i # j => p[i] # p[j]}
        sorted == {p \in perms :
                      \A i, j \in 1..n : i < j => d[p[i]].likes >= d[p[j]].likes}
    IN  {[i \in 1..n |-> d[p[i]]] : p \in sorted}

\* faulty variant of drop_duplicates: keep="last"
drop_duplicates_keep_last(d) ==
    PickRows(d, {i \in DOMAIN d :
                    \A j \in DOMAIN d : j > i => d[j].user # d[i].user})

\* faulty variant of drop_duplicates: subset=["ユーザー名", "本文"]
drop_duplicates_user_and_text(d) ==
    PickRows(d, {i \in DOMAIN d :
                    \A j \in 1..(i - 1) :
                        d[j].user # d[i].user \/ d[j].text # d[i].text})

\* d.drop_duplicates(subset=["ユーザー名"], keep="first")
drop_duplicates(d) ==
    PickRows(d, {i \in DOMAIN d :
                    \A j \in 1..(i - 1) : d[j].user # d[i].user})

\* filter_data(df): the possible return values
\* (df_filtered, original_count, total_excluded)
filter_data(d) ==
    LET original_count == Len(d)
        by_keyword == filter_keywords(d)
    IN  {[df_filtered |-> drop_duplicates(sorted),
          original_count |-> original_count,
          total_excluded |-> original_count - Len(drop_duplicates(sorted))] :
             sorted \in sort_values(by_keyword)}

FilterUsers == {"u1", "u2"}
\* two harmless texts and one with 侵害
FilterTexts == {<<"a">>, <<"wakaru">>, <<"a", "shingai">>}
FilterLikes == {1, 2, 3}

\* pd.read_excel gives the rows the index labels 0, 1, 2, ...
WithIndex(q) ==
    [i \in DOMAIN q |->
        [index |-> i - 1, user |-> q[i][1], text |-> q[i][2], likes |-> q[i][3]]]

DataFrames ==
    {WithIndex(q) :
        q \in SeqsUpTo(FilterUsers \X FilterTexts \X FilterLikes, MaxRows)}

FilterInit ==
    /\ df \in DataFrames
    /\ FilterIdle
    /\ text = <<>>
    /\ ScoreIdle
    /\ DbEmpty
    /\ FetchIdle
    /\ ChartIdle
    /\ AnalysisIdle

\* filter_keywords(df)
CallFilterKeywords ==
    /\ filter_called = "none"
    /\ filter_result' = [df_filtered |-> filter_keywords(df)]
    /\ filter_called' = "filter_keywords"
    /\ UNCHANGED <<df, scoreVars, dbVars, ioVars>>

\* filter_data(df)
CallFilterData ==
    /\ filter_called = "none"
    /\ filter_result' \in filter_data(df)
    /\ filter_called' = "filter_data"
    /\ UNCHANGED <<df, scoreVars, dbVars, ioVars>>

FilterNext == CallFilterKeywords \/ CallFilterData

SpecFilter == FilterInit /\ [][FilterNext]_vars

\* the rows of a DataFrame
RowsOf(d) == {d[i] : i \in DOMAIN d}
\* the rows of df without banned keyword
NonBanned == {r \in RowsOf(df) : ~should_exclude(r.text)}
\* the rows returned by filter_data
Kept == RowsOf(filter_result.df_filtered)

\* C6 as stated: of two rows without banned keyword that have the same
\* (account, text) and different like counts, the output of filter_data
\* contains exactly one, the one with the higher like count.
C6_KeepsHigherOfPair ==
    filter_called = "filter_data" =>
        \A lo, hi \in NonBanned :
            (lo.user = hi.user /\ lo.text = hi.text /\ lo.likes < hi.likes)
                => (hi \in Kept /\ lo \notin Kept)

\* C6, amended: filter_data reduces every account to one row.  Of two rows
\* without banned keyword that have the same (account, text) and different
\* like counts, the one with the lower like count is never in the output;
\* the one with the higher like count is in the output only if no other row
\* of the account without banned keyword has a higher like count, and it
\* is in the output whenever its like count is above that of every such row.
C6_KeepsHigherOfPairIfAccountBest ==
    filter_called = "filter_data" =>
        \A lo, hi \in NonBanned :
            (lo.user = hi.user /\ lo.text = hi.text /\ lo.likes < hi.likes)
                => /\ lo \notin Kept
                   /\ hi \in Kept =>
                          \A r \in NonBanned : r.user = hi.user => r.likes <= hi.likes
                   /\ (\A r \in NonBanned \ {hi} :
                          r.user = hi.user => r.likes < hi.likes) => hi \in Kept

\* a pair with the same (account, text), neither row of which is kept
\* because a third row of the account has more likes
C6_Witness ==
    /\ filter_called = "filter_data"
    /\ \E lo, hi \in NonBanned :
          /\ lo.user = hi.user /\ lo.text = hi.text /\ lo.likes < hi.likes
          /\ lo \notin Kept /\ hi \notin Kept
          /\ \E r \in Kept : r.user = hi.user /\ r.text # hi.text

\* C7 as stated: the output of filter_data has exactly one row for each
\* distinct (account, text) pair among the rows without banned keyword, so
\* two rows of one account with different texts are both retained.
C7_OneRowPerAccountAndText ==
    filter_called = "filter_data" =>
        /\ Kept \subseteq NonBanned
        /\ \A r \in NonBanned :
              Cardinality({k \in Kept : k.user = r.user /\ k.text = r.text}) = 1

\* C7, amended: the output of filter_data has no row with a banned keyword
\* and exactly one row for each distinct account among the rows without
\* banned keyword, a row with the highest like count of that account; two
\* rows of one account with different texts are never both retained.
C7_OneRowPerAccount ==
    filter_called = "filter_data" =>
        /\ Kept \subseteq NonBanned
        /\ Len(filter_result.df_filtered) = Cardinality(Kept)
        /\ \A r \in NonBanned :
              /\ Cardinality({k \in Kept : k.user = r.user}) = 1
              /\ \A k \in Kept : k.user = r.user => k.likes >= r.likes
        /\ filter_result.original_count = Len(df)
        /\ filter_result.total_excluded = Len(df) - Cardinality(Kept)

\* two rows of one account with different texts, one of which is dropped
C7_Witness ==
    /\ filter_called = "filter_data"
    /\ \E r, k \in NonBanned :
          /\ r.user = k.user /\ r.text # k.text
          /\ k \in Kept /\ r \notin Kept
    /\ \E b \in RowsOf(df) : should_exclude(b.text)

-----------------------------------------------------------------------------
(* The posts table: import_csv.import_file, fix_duplicates, and the        *)
(* duplicate management of the dashboard (app.py, tab7)                    *)
(* A stored row is [id, account, text, likes].  The texts are sequences of *)
(* tokens as above; "sp" is a space, "a50" fifty あ, "nan" the string that *)
(* str() makes of an empty cell, "present" プレゼント企画.                 *)

MaxId == 3
MaxFileRows == 2
MaxUploadRows == 1

\* [ \t\n...]: the whitespace str.strip() removes
StripChars == {"sp", "nl"}

RECURSIVE lstrip(_)
lstrip(t) ==
    IF t # <<>> /\ t[1] \in StripChars THEN lstrip(Tail(t)) ELSE t

RECURSIVE rstrip(_)
rstrip(t) ==
    IF t # <<>> /\ t[Len(t)] \in StripChars
    THEN rstrip(SubSeq(t, 1, Len(t) - 1)) ELSE t

\* str.strip()
strip(t) == rstrip(lstrip(t))

\* _to_int(val): pd.to_numeric(val, errors="coerce"), 0 when that is NaN.
\* A cell is [num, val]: num says whether to_numeric reads a number.
_to_int(cell) == IF cell.num THEN cell.val ELSE 0

\* the names normalize_df accepts for the text column, in the order it
\* tries them: 本文, テキスト, text
text_aliases == <<"honbun", "tekisuto", "text">>

\* col_map["text"] when the column names are also matched in title case
col_map_text_any_case(cols) ==
    LET found == {k \in DOMAIN text_aliases : text_aliases[k] \in cols}
    IN  IF found # {}
        THEN text_aliases[CHOOSE k \in found : \A m \in found : k <= m]
        ELSE IF "Text" \in cols THEN "Text" ELSE "None"

\* col_map["text"] of normalize_df: the first of the names that is a column
\* of the file, "None" when col_map gets no "text" (ValueError)
col_map_text(cols) ==
    LET found == {k \in DOMAIN text_aliases : text_aliases[k] \in cols}
    IN  IF found # {}
        THEN text_aliases[CHOOSE k \in found : \A m \in found : k <= m]
        ELSE "None"

\* the columns of the Excel export: 本文, ユーザー名, いいね数
ExcelColumns == {"honbun", "user_mei", "iine_su"}

\* the columns of the files: the Excel export, and a file without text
\* column
InputColumns ==
    {ExcelColumns,
     {"Text", "account", "likes"}}

\* the loop of normalize_df over the rows of a file that has a text column:
\* the text is stripped, a row whose text is empty or "nan" is left out
normalize_df(file) ==
    LET row(r) == [account |-> r.account, text |-> strip(r.text),
                   likes |-> _to_int(r.likes)]
        all == [k \in DOMAIN file |-> row(file[k])]
    IN  PickRows(all, {k \in DOMAIN all :
                          all[k].text # <<>> /\ all[k].text # <<"nan">>})

\* analyze_posts.GIVEAWAY_KEYWORDS
GIVEAWAY_KEYWORDS == {"present"}

\* _is_giveaway(text)
_is_giveaway(t) == Search(GIVEAWAY_KEYWORDS, t)

\* import_file up to the insertion loop: the rows of the file that are
\* offered to the posts table
rows_to_insert(file) ==
    LET rows == normalize_df(file)
    IN  PickRows(rows, {k \in DOMAIN rows : ~_is_giveaway(rows[k].text)})

\* faulty variant of row_exists: the like count is compared too
row_exists_same_likes(visible, row) ==
    \E p \in visible :
        p.text = row.text /\ p.account = row.account /\ p.likes = row.likes

\* SELECT id FROM posts WHERE text = ? AND account = ?  (fetchone() is not
\* None), on the rows the connection sees
row_exists(visible, row) ==
    \E p \in visible : p.text = row.text /\ p.account = row.account

\* the row INSERT INTO posts stores
stored_row(id, row) ==
    [id |-> id, account |-> row.account, text |-> row.text, likes |-> row.likes]

RECURSIVE import_rows_replace(_, _, _, _, _, _)
\* faulty variant of import_rows: a row that exists is replaced by the row
\* of the file instead of being skipped
import_rows_replace(rows, k, db, nid, inserted, skipped) ==
    IF k > Len(rows)
    THEN [db |-> db, next_id |-> nid, inserted |-> inserted, skipped |-> skipped]
    ELSE import_rows_replace(
             rows, k + 1,
             {p \in db : ~(p.text = rows[k].text /\ p.account = rows[k].account)}
                 \cup {stored_row(nid, rows[k])},
             nid + 1, inserted + 1, skipped)

RECURSIVE import_rows(_, _, _, _, _, _)
\* the insertion loop of import_file from row k on, run without
\* interruption on the visible rows db: the rows visible at the end, the
\* next id, and the counters
import_rows(rows, k, db, nid, inserted, skipped) ==
    IF k > Len(rows)
    THEN [db |-> db, next_id |-> nid, inserted |-> inserted, skipped |-> skipped]
    ELSE IF row_exists(db, rows[k])
         THEN import_rows(rows, k + 1, db, nid, inserted, skipped + 1)
         ELSE import_rows(rows, k + 1, db \cup {stored_row(nid, rows[k])},
                          nid + 1, inserted + 1, skipped)

RECURSIVE Take(_, _)
\* the first n characters of t: each token with the number of its
\* characters that are taken
Take(t, n) ==
    IF t = <<>> \/ n <= 0 THEN <<>>
    ELSE IF TokLen(t[1]) <= n
         THEN << <<t[1], TokLen(t[1])>> >> \o Take(Tail(t), n - TokLen(t[1]))
    ELSE << <<t[1], n>> >>

\* SUBSTR(text, 1, 50)
SUBSTR_1_50(t) == Take(t, 50)

\* faulty variant of fix_duplicates_delete: MAX(id) is kept
fix_duplicates_delete_keep_max(db) ==
    {p \in db :
        \A q \in db :
            (q.account = p.account /\ SUBSTR_1_50(q.text) = SUBSTR_1_50(p.text))
                => q.id <= p.id}

\* fix_duplicates: DELETE FROM posts WHERE id NOT IN (SELECT MIN(id) FROM
\* posts GROUP BY account, SUBSTR(text,1,50)); the rows that stay
fix_duplicates_delete(db) ==
    {p \in db :
        \A q \in db :
            (q.account = p.account /\ SUBSTR_1_50(q.text) = SUBSTR_1_50(p.text))
                => p.id <= q.id}

\* tab7: SELECT account, text, COUNT(*), MIN(id), MAX(likes) FROM posts
\* GROUP BY account, text HAVING cnt > 1
dup_groups(db) ==
    LET group(p) == {q \in db : q.account = p.account /\ q.text = p.text}
        least(S) == CHOOSE n \in S : \A m \in S : n <= m
        most(S) == CHOOSE n \in S : \A m \in S : n >= m
    IN  {[account |-> p.account, text |-> p.text, cnt |-> Cardinality(group(p)),
          keep_id |-> least({q.id : q \in group(p)}),
          max_likes |-> most({q.likes : q \in group(p)})] :
             p \in {q \in db : Cardinality(group(q)) > 1}}

\* faulty variant of bulk_delete: the groups are those of the first 50
\* characters
bulk_delete_first_50(db) ==
    {p \in db :
        \A q \in db :
            (q.account = p.account /\ SUBSTR_1_50(q.text) = SUBSTR_1_50(p.text))
                => p.id <= q.id}

\* tab7, bulk delete: DELETE FROM posts WHERE id NOT IN (SELECT MIN(id) FROM
\* posts GROUP BY account, text); the rows that stay
bulk_delete(db) ==
    {p \in db :
        \A q \in db : (q.account = p.account /\ q.text = p.text) => p.id <= q.id}

\* tab7, delete of one group: DELETE FROM posts WHERE account=? AND text=?
\* AND id != ?; the rows that stay
group_delete(db, g) ==
    {p \in db : ~(p.account = g.account /\ p.text = g.text /\ p.id # g.keep_id)}

\* a cell holding the number n
Num(n) == [num |-> TRUE, val |-> n]

\* cells of the uploaded files: a post of 51 characters, the same post with
\* surrounding whitespace and another like count, a post with the same
\* first 50 characters, the post under another account with an unreadable
\* like count, rows without text, and a giveaway post
RawRows ==
    {[account |-> "u1", text |-> <<"a50", "x">>, likes |-> Num(1)],
     [account |-> "u1", text |-> <<"sp", "a50", "x", "nl">>, likes |-> Num(2)],
     [account |-> "u1", text |-> <<"a50", "y">>, likes |-> Num(2)],
     [account |-> "u2", text |-> <<"a50", "x">>, likes |-> [num |-> FALSE, val |-> 0]],
     [account |-> "u1", text |-> <<"sp">>, likes |-> Num(1)],
     [account |-> "u1", text |-> <<"nan">>, likes |-> Num(1)],
     [account |-> "u1", text |-> <<"present", "a">>, likes |-> Num(1)]}

Files == SeqsUpTo(RawRows, MaxFileRows)

\* the files of the interleaved imports; of the rows that are not offered
\* to the table they hold the one with blank text
UploadFiles ==
    SeqsUpTo({r \in RawRows : r.text \notin {<<"nan">>, <<"present", "a">>}},
             MaxUploadRows)

DbInit ==
    /\ DbEmpty
    /\ text = <<>>
    /\ ScoreIdle
    /\ df = <<>>
    /\ FilterIdle
    /\ FetchIdle
    /\ ChartIdle
    /\ AnalysisIdle

\* the rows a session's connection sees: the committed ones and its own
Visible(s) == posts \cup pending[s]

\* another connection holds the write lock of the database file
LockedByOther(s) == \E o \in Sessions \ {s} : pending[o] # {}

\* rows a running import may still insert
Remaining(s) ==
    IF sess[s].pc \in {"select", "insert"} THEN Len(sess[s].rows) - sess[s].i + 1
    ELSE 0

\* import_file(filepath) run from start to end with no other session at
\* work, on a file with the columns cols: normalize_df raises ValueError
\* when no column is the text column; else normalize, filter, insertion
\* loop, commit
ImportFile(s, cols, file) ==
    IF col_map_text(cols) = "None"
    THEN /\ sess' = [sess EXCEPT ![s] =
                        [pc |-> "ValueError", cols |-> cols, rows |-> <<>>,
                         i |-> 1, inserted |-> 0, skipped |-> 0]]
         /\ UNCHANGED <<posts, next_id, pending, scoreVars, filterVars,
                        fetchVars, chartVars, analysisVars>>
    ELSE LET rows == rows_to_insert(file)
             out == import_rows(rows, 1, posts, next_id, 0, 0)
         IN  /\ next_id - 1 + Len(rows) <= MaxId
             /\ posts' = out.db
             /\ next_id' = out.next_id
             /\ sess' = [sess EXCEPT ![s] =
                            [pc |-> "done", cols |-> cols, rows |-> rows,
                             i |-> Len(rows) + 1, inserted |-> out.inserted,
                             skipped |-> out.skipped]]
             /\ UNCHANGED <<pending, scoreVars, filterVars, fetchVars,
                            chartVars, analysisVars>>

\* fix_duplicates.py run as a script
FixDuplicates ==
    /\ \A s \in Sessions : pending[s] = {}
    /\ posts' = fix_duplicates_delete(posts)
    /\ UNCHANGED <<pending, next_id, sess, scoreVars, filterVars, ioVars>>

ImportNext ==
    \/ /\ \E cols \in InputColumns, file \in Files :
             ImportFile("s1", cols, file)
       /\ UNCHANGED upload
    \/ FixDuplicates

\* the command line (python import_csv.py <file>, python fix_duplicates.py):
\* one run after the other
SpecImport == DbInit /\ [][ImportNext]_vars

\* import_file in session s, up to the insertion loop
ImportBegin(s, file) ==
    LET rows == rows_to_insert(file)
        others == Remaining(CHOOSE o \in Sessions : o # s)
    IN  /\ sess[s].pc \in {"idle", "done", "raised"}
        /\ next_id - 1 + others + Len(rows) <= MaxId
        /\ sess' = [sess EXCEPT ![s] =
                       [pc |-> "select", cols |-> ExcelColumns, rows |-> rows,
                        i |-> 1, inserted |-> 0, skipped |-> 0]]
        /\ UNCHANGED <<posts, pending, next_id, scoreVars, filterVars, ioVars>>

\* the SELECT of the loop for the current row; a row found is skipped
ImportSelect(s) ==
    /\ sess[s].pc = "select"
    /\ sess[s].i <= Len(sess[s].rows)
    /\ IF row_exists(Visible(s), sess[s].rows[sess[s].i])
       THEN sess' = [sess EXCEPT ![s].skipped = @ + 1, ![s].i = @ + 1]
       ELSE sess' = [sess EXCEPT ![s].pc = "insert"]
    /\ UNCHANGED <<posts, pending, next_id, scoreVars, filterVars, ioVars>>

\* the INSERT of the loop for the current row; it takes the write lock,
\* which the connection keeps until it commits
ImportInsert(s) ==
    /\ sess[s].pc = "insert"
    /\ ~LockedByOther(s)
    /\ pending' = [pending EXCEPT ![s] =
                      @ \cup {stored_row(next_id, sess[s].rows[sess[s].i])}]
    /\ next_id' = next_id + 1
    /\ sess' = [sess EXCEPT ![s].inserted = @ + 1, ![s].i = @ + 1,
                            ![s].pc = "select"]
    /\ UNCHANGED <<posts, scoreVars, filterVars, ioVars>>

\* the INSERT waits for the write lock longer than the timeout of the
\* connection: sqlite3.OperationalError leaves import_file
ImportLocked(s) ==
    /\ sess[s].pc = "insert"
    /\ LockedByOther(s)
    /\ sess' = [sess EXCEPT ![s].pc = "raised"]
    /\ UNCHANGED <<posts, pending, next_id, scoreVars, filterVars, ioVars>>

\* conn.commit() after the loop
ImportCommit(s) ==
    /\ sess[s].pc = "select"
    /\ sess[s].i > Len(sess[s].rows)
    /\ posts' = posts \cup pending[s]
    /\ pending' = [pending EXCEPT ![s] = {}]
    /\ sess' = [sess EXCEPT ![s].pc = "done"]
    /\ UNCHANGED <<next_id, scoreVars, filterVars, ioVars>>

\* tab7: the button 全重複を一括削除, shown when there are duplicate groups
BulkDelete ==
    /\ dup_groups(posts) # {}
    /\ \A s \in Sessions : pending[s] = {}
    /\ posts' = bulk_delete(posts)
    /\ UNCHANGED <<pending, next_id, sess, scoreVars, filterVars, ioVars>>

\* tab7: the button このグループの重複を削除 of one duplicate group
GroupDelete ==
    /\ \A s \in Sessions : pending[s] = {}
    /\ \E g \in dup_groups(posts) : posts' = group_delete(posts, g)
    /\ UNCHANGED <<pending, next_id, sess, scoreVars, filterVars, ioVars>>

DbNext ==
    \/ \E s \in Sessions, file \in UploadFiles : ImportBegin(s, file)
    \/ \E s \in Sessions : ImportSelect(s)
    \/ \E s \in Sessions : ImportInsert(s)
    \/ \E s \in Sessions : ImportLocked(s)
    \/ \E s \in Sessions : ImportCommit(s)
    \/ FixDuplicates
    \/ BulkDelete
    \/ GroupDelete

\* imports of two sessions (dashboard uploads, the command line) and the
\* duplicate removal, interleaved
SpecDB == DbInit /\ [][DbNext]_vars

\* the stored rows of the post (account, text)
Stored(db, account, t) == {p \in db : p.account = account /\ p.text = t}

\* C8: from an empty database, after any sequence of import_file calls run
\* one at a time, also of files that hold a post several times, no two
\* rows of posts have the same (text, account).
C8_NoDuplicateAfterImports ==
    \A p, q \in posts :
        (p.text = q.text /\ p.account = q.account) => p = q

\* an import of a file that holds the same post twice: one row inserted,
\* one skipped
C8_Witness ==
    \E s \in Sessions :
        /\ sess[s].pc = "done"
        /\ Len(sess[s].rows) = 2
        /\ sess[s].rows[1].text = sess[s].rows[2].text
        /\ sess[s].rows[1].likes # sess[s].rows[2].likes
        /\ sess[s].inserted = 1 /\ sess[s].skipped = 1
        /\ Cardinality(posts) = 1

\* C9 as stated: when the same (account, text) post reaches the store
\* twice with different like counts, the one row that remains carries the
\* higher like count: after import_file has met a post that is stored
\* with a lower like count, and after the duplicate removal has deleted
\* a row of the post.
C9_HigherLikesRemain ==
    [][/\ \A s \in Sessions :
             (sess[s].pc = "select" /\ sess'[s].i = sess[s].i + 1) =>
                 LET r == sess[s].rows[sess[s].i]
                 IN  \A p \in Stored(posts' \cup pending'[s], r.account, r.text) :
                         p.likes >= r.likes
       /\ \A p \in posts \ posts' :
             \A q \in Stored(posts', p.account, p.text) : q.likes >= p.likes
      ]_vars

\* C9, amended: the row that remains is the one stored first, whatever its
\* like count.  import_file skips a post whose (text, account) it finds
\* stored and leaves the stored row as it is; no stored row is ever
\* changed; and when the duplicate removal (fix_duplicates, the bulk and
\* the group delete of the dashboard) deletes a row of a post, a row of the
\* post that remains is the one with the lowest id.  So the remaining row
\* carries the higher like count only if the row stored first had it.
C9_FirstStoredRemains ==
    [][/\ \A s \in Sessions :
             (/\ sess[s].pc = "select"
              /\ sess'[s] # sess[s]
              /\ sess[s].i <= Len(sess[s].rows)
              /\ Stored(posts \cup pending[s], sess[s].rows[sess[s].i].account,
                        sess[s].rows[sess[s].i].text) # {})
                 => /\ posts' = posts /\ pending' = pending
                    /\ sess'[s].skipped = sess[s].skipped + 1
                    /\ sess'[s].inserted = sess[s].inserted
       /\ \A p \in posts' : (\E q \in posts : q.id = p.id) => p \in posts
       /\ \A p \in posts \ posts' :
             \A q \in Stored(posts', p.account, p.text) :
                 /\ q.id < p.id
                 /\ \A o \in Stored(posts, p.account, p.text) : q.id <= o.id
      ]_vars

\* a second arrival with more likes has been skipped: the stored row has
\* the lower like count
C9_Witness ==
    \E s \in Sessions :
        /\ sess[s].pc = "done"
        /\ sess[s].skipped = 1
        /\ \E k \in DOMAIN sess[s].rows :
              LET r == sess[s].rows[k]
              IN  /\ Cardinality(Stored(posts, r.account, r.text)) = 1
                  /\ \A p \in Stored(posts, r.account, r.text) :
                        p.likes < r.likes /\ p.id = 1

-----------------------------------------------------------------------------
(* Properties of the point tables of the scorers *)

\* the first line is led by a digit, or holds a digit and a counter, and
\* has no question mark
DigitLed(t) == DigitRule(FirstLine(t)) /\ ~QuestionRule(FirstLine(t))

\* C11 as stated: in v1 and in v2 the digit-led opening has the strictly
\* highest value and no opening scores below the unmatched one (その他,
\* the class of an empty first line).
C11_OtherIsLowest ==
    called \in {V1, V2} =>
        LET s == result.factors.boutou_pattern
            top == IF called = V2 THEN 25 ELSE 20
        IN  /\ s <= top
            /\ s = top <=> DigitLed(text)
            /\ s >= EmptyOf(called).boutou_pattern

\* C11, amended: in v1 and in v2 the digit-led opening has the strictly
\* highest value (20 and 25).  In v1 その他 has the lowest value (5).  In v2
\* it does not: その他 scores 10, and 断定形 (8), 煽り (6) and 呼びかけ (5)
\* score below it; the lowest value of the v2 table is 5.
C11_DigitLedHighest ==
    /\ called = V1 =>
          LET s == result.factors.boutou_pattern
          IN  /\ s \in {20, 16, 14, 12, 8, 5}
              /\ s = 20 <=> DigitLed(text)
              /\ FirstLine(text) = <<>> => s = 5
    /\ called = V2 =>
          LET s == result.factors.boutou_pattern
          IN  /\ s \in {25, 18, 12, 10, 8, 6, 5}
              /\ s = 25 <=> DigitLed(text)
              /\ FirstLine(text) = <<>> => s = 10

\* a text opening with あなた scores 5 in v2, below an unmatched opening
C11_Witness ==
    /\ called = V2
    /\ text = <<"anata">>
    /\ result.factors.boutou_pattern = 5
    /\ result.factors.boutou_pattern < EmptyV2.boutou_pattern

\* texts of one filler token: lengths 0, 38, 78, ..., 398
LengthProbes ==
    {<<>>, <<"a38">>, <<"a78">>, <<"a98">>, <<"a128">>, <<"a138">>, <<"a168">>,
     <<"a218">>, <<"a298">>, <<"a398">>}

\* the 文字数 factor of the probes
ProbePoints ==
    [p \in LengthProbes |-> calculate_buzz_score_v2(p, NoDateTime).factors.mojisuu]

\* C12 as stated: the 文字数 factor of v2 is within 2..20 and non-increasing
\* in len(text): a text at least as long as another scores at most as much.
C12_LengthMonotone ==
    called = V2 =>
        LET n == StrLen(text)
            m == result.factors.mojisuu
        IN  /\ m \in 2..20
            /\ \A p \in LengthProbes :
                  /\ n <= StrLen(p) => m >= ProbePoints[p]
                  /\ StrLen(p) <= n => ProbePoints[p] >= m

\* C12, amended: the 文字数 factor of v2 is within 2..20; a text of 81 to
\* 130 characters scores 13, which is less than the 17 of a text of 131 to
\* 170 characters, so the factor is not monotone; among texts outside
\* 81..130 it is non-increasing in len(text), and no text of 81..130
\* characters scores more than a shorter text or less than a text of
\* more than 170 characters.
C12_LengthMonotoneExceptOverride ==
    called = V2 =>
        LET n == StrLen(text)
            m == result.factors.mojisuu
            mid(k) == 81 <= k /\ k <= 130
        IN  /\ m \in 2..20
            /\ mid(n) => m = 13
            /\ (130 < n /\ n <= 170) => m = 17
            /\ \A p \in LengthProbes :
                  LET k == StrLen(p)
                  IN  /\ (n <= k /\ ~(mid(n) /\ k <= 170)) => m >= ProbePoints[p]
                      /\ (k <= n /\ ~(mid(k) /\ n <= 170)) => ProbePoints[p] >= m

\* a text of 81..130 characters, scoring less than the longer probe あ x 138
C12_Witness ==
    /\ called = V2
    /\ StrLen(text) \in 81..130
    /\ result.factors.mojisuu = 13
    /\ ProbePoints[<<"a138">>] = 17

\* a digit followed by a unit word (the texts have 3 with つ and 万)
NumberWithUnit(t) ==
    \E i \in 1..(Len(t) - 1) : t[i] = "3" /\ t[i + 1] \in {"tsu", "man"}

\* a currency or income pattern (the texts have 3万 and 年収)
CurrencyOrIncome(t) ==
    \/ \E i \in 1..(Len(t) - 1) : t[i] = "3" /\ t[i + 1] = "man"
    \/ \E i \in DOMAIN t : t[i] = "nenshu"

\* C13 as stated: the 具体的数字 factor of v2 is 0 without a number followed
\* by a unit word, 10 with one but no currency/income pattern, 15 with
\* both; the +5 is never given without the number+unit match.
C13_BonusNeedsNumber ==
    called = V2 =>
        result.factors.gutaiteki_suuji =
            (IF ~NumberWithUnit(text) THEN 0
             ELSE IF CurrencyOrIncome(text) THEN 15 ELSE 10)

\* C13, amended: the 具体的数字 factor of v2 is 10 for a number followed by a
\* unit word plus 5 for a currency/income pattern, each independently of
\* the other: 0 with neither, 5 with an income word (月収, 年収, 売上) and no
\* number+unit match, 10 with the match and no currency/income pattern, 15
\* with both; it never exceeds 15.
C13_BonusIndependent ==
    called = V2 =>
        result.factors.gutaiteki_suuji =
            (IF NumberWithUnit(text) THEN 10 ELSE 0)
                + (IF CurrencyOrIncome(text) THEN 5 ELSE 0)

\* 年収 without any number: 5 points
C13_Witness ==
    /\ called = V2
    /\ ~NumberWithUnit(text)
    /\ CurrencyOrIncome(text)
    /\ result.factors.gutaiteki_suuji = 5


-----------------------------------------------------------------------------
(* HTTP ingestion: buzz_analyzer.fetch_buzz_posts and the API mode of      *)
(* account_analyzer.main.  The server's answer to a requests.get call is   *)
(* an input of the step that makes the call.                               *)

MaxTweets == 2      \* tweets in one search response
MaxAccounts == 3    \* accounts of TARGET_ACCOUNTS that are processed

\* "AI 副業", "AI 稼ぐ", "AI 収益化", "Claude Code", "AI自動化"
keywords ==
    <<"AI fukugyo", "AI kasegu", "AI shuekika", "Claude Code", "AI jidoka">>

TARGET_ACCOUNTS ==
    SubSeq(<<"1banana2546", "Naoki_GPT", "ethann_AI", "maind200",
             "gyarados__AI", "ComagerTon79278", "mamiya_afi",
             "takkun_life_ea", "ai_nepro">>, 1, MaxAccounts)

\* the count argument of fetch_user_tweets
count == 100

\* today = datetime.now().strftime("%Y%m%d")
today == "YYYYMMDD"

\* the tweets the search API can return; one has no id
Tweets ==
    { [id |-> "t1", text |-> "x1", likeCount |-> 1, retweetCount |-> 0,
       replyCount |-> 0, createdAt |-> "d1", userName |-> "u1"],
      [id |-> "t2", text |-> "x2", likeCount |-> 2, retweetCount |-> 1,
       replyCount |-> 0, createdAt |-> "d2", userName |-> "u2"],
      [id |-> "t3", text |-> "x3", likeCount |-> 2, retweetCount |-> 0,
       replyCount |-> 1, createdAt |-> "d3", userName |-> ""],
      [id |-> "", text |-> "x4", likeCount |-> 3, retweetCount |-> 0,
       replyCount |-> 0, createdAt |-> "d4", userName |-> "u1"] }

\* what requests.get, raise_for_status and response.json raise
Errors ==
    { [kind |-> "ConnectionError", status_code |-> 0],
      [kind |-> "Timeout", status_code |-> 0],
      [kind |-> "HTTPError", status_code |-> 401],
      [kind |-> "HTTPError", status_code |-> 429],
      [kind |-> "HTTPError", status_code |-> 500],
      [kind |-> "Exception", status_code |-> 0] }

Ok == [kind |-> "ok", status_code |-> 200]

\* the answers to a search request: an error, or data with "tweets"
SearchAnswers ==
    {[response |-> e, tweets |-> <<>>] : e \in Errors}
        \cup {[response |-> Ok, tweets |-> ts] :
                ts \in SeqsUpTo(Tweets, MaxTweets)}

\* the answers to a last_tweets request: an error, or data with "status",
\* the number of "tweets", "has_next_page" and "next_cursor"
UserAnswers ==
    {[response |-> e, status |-> "none", tweets |-> 0,
      has_next_page |-> FALSE, next_cursor |-> NoCursor] : e \in Errors}
        \cup {[response |-> Ok, status |-> s, tweets |-> n,
               has_next_page |-> h, next_cursor |-> c] :
                s \in {"success", "error"}, n \in {0, 60},
                h \in BOOLEAN, c \in {NoCursor, "c1"}}

Exit(code) == [called |-> TRUE, code |-> code]

\* fetch_tweets_by_keyword without the handlers' sys.exit: an error is
\* answered with no tweets
fetch_tweets_by_keyword_returns_empty(a) ==
    [exit |-> NoExit, tweets |-> a.tweets]

\* fetch_tweets_by_keyword: the tweets of the answer, or sys.exit(1)
fetch_tweets_by_keyword(a) ==
    IF a.response.kind # "ok"
    THEN [exit |-> Exit(1), tweets |-> <<>>]
    ELSE [exit |-> NoExit, tweets |-> a.tweets]

\* the loop that adds the tweets of one keyword without the test on "id"
RECURSIVE add_tweets_any_id(_, _, _)
add_tweets_any_id(tweets, all, seen) ==
    IF tweets = <<>> THEN [all_tweets |-> all, seen_tweet_ids |-> seen]
    ELSE LET tweet == Head(tweets)
         IN  IF tweet.id \notin seen
             THEN add_tweets_any_id(Tail(tweets), Append(all, tweet),
                                    seen \cup {tweet.id})
             ELSE add_tweets_any_id(Tail(tweets), all, seen)

\* the loop that adds the tweets of one keyword, duplicates left out
RECURSIVE add_tweets(_, _, _)
add_tweets(tweets, all, seen) ==
    IF tweets = <<>> THEN [all_tweets |-> all, seen_tweet_ids |-> seen]
    ELSE LET tweet == Head(tweets)
         IN  IF tweet.id # "" /\ tweet.id \notin seen
             THEN add_tweets(Tail(tweets), Append(all, tweet),
                             seen \cup {tweet.id})
             ELSE add_tweets(Tail(tweets), all, seen)

\* the row of a tweet: 本文, いいね数, リポスト数, リプライ数, 投稿日時,
\* ユーザー名, フォロワー数 ("未取得"), ポストURL
to_row(tweet) ==
    [honbun |-> tweet.text,
     iine_su |-> tweet.likeCount,
     ripost_su |-> tweet.retweetCount,
     reply_su |-> tweet.replyCount,
     toko_nichiji |-> tweet.createdAt,
     user_mei |-> tweet.userName,
     follower_su |-> "mishutoku",
     post_URL |-> IF tweet.userName # "" /\ tweet.id # ""
                  THEN <<"https://x.com/", tweet.userName, "/status/",
                         tweet.id>>
                  ELSE <<>>]

\* rows.sort(key=lambda x: x["いいね数"], reverse=True): stable
RECURSIVE sort_rows(_)
sort_rows(rows) ==
    IF rows = <<>> THEN <<>>
    ELSE LET n == Len(rows)
             sorted == sort_rows(SubSeq(rows, 1, n - 1))
             k == Cardinality({j \in 1..(n - 1) :
                                 sorted[j].iine_su >= rows[n].iine_su})
         IN  SubSeq(sorted, 1, k) \o <<rows[n]>> \o SubSeq(sorted, k + 1, n - 1)

headers ==
    <<"honbun", "iine_su", "ripost_su", "reply_su", "toko_nichiji",
      "user_mei", "follower_su", "post_URL">>

\* the workbook fetch_buzz_posts saves
buzz_posts_file(all) ==
    [dir |-> "output", name |-> <<"buzz_posts_", today>>, ext |-> "xlsx",
     headers |-> headers,
     rows |-> sort_rows([j \in 1..Len(all) |-> to_row(all[j])])]

\* the end of fetch_buzz_posts saving a workbook without data rows
save_buzz_posts_saves_empty(all, fs) ==
    [exit |-> NoExit, files |-> fs \cup {buzz_posts_file(all)}]

\* the end of fetch_buzz_posts: sys.exit(0) without tweets, else the rows
\* sorted and saved
save_buzz_posts(all, fs) ==
    IF all = <<>>
    THEN [exit |-> Exit(0), files |-> fs]
    ELSE [exit |-> NoExit, files |-> fs \cup {buzz_posts_file(all)}]

\* the report and the workbook account_analyzer.main saves
account_files(analyses, by_account) ==
    { [dir |-> "output", name |-> <<"account_analysis_shosai_", today>>,
       ext |-> "md", headers |-> <<>>, rows |-> analyses],
      [dir |-> "output", name |-> <<"account_posts_", today>>,
       ext |-> "xlsx", headers |-> <<>>, rows |-> by_account] }

\* a pass without `if not tweets: break`: an empty page does not end the
\* loop
fetch_user_tweets_ok_no_empty_break(a, all, cur) ==
    LET extended == all + a.tweets
    IN  IF ~a.has_next_page
        THEN [returned |-> TRUE, all_tweets |-> Min(extended, count),
              cursor |-> cur]
        ELSE IF a.next_cursor = NoCursor
        THEN [returned |-> TRUE, all_tweets |-> Min(extended, count),
              cursor |-> NoCursor]
        ELSE IF extended < count
        THEN [returned |-> FALSE, all_tweets |-> extended,
              cursor |-> a.next_cursor]
        ELSE [returned |-> TRUE, all_tweets |-> Min(extended, count),
              cursor |-> a.next_cursor]

\* a pass of the while loop of fetch_user_tweets that raised nothing and
\* got no "status": "error", on len(all_tweets) and cursor: whether the
\* function returns after it, and their new values
fetch_user_tweets_ok(a, all, cur) ==
    IF a.tweets = 0
    THEN [returned |-> TRUE, all_tweets |-> Min(all, count), cursor |-> cur]
    ELSE LET extended == all + a.tweets
         IN  IF ~a.has_next_page
             THEN [returned |-> TRUE, all_tweets |-> Min(extended, count),
                   cursor |-> cur]
             ELSE IF a.next_cursor = NoCursor
             THEN [returned |-> TRUE, all_tweets |-> Min(extended, count),
                   cursor |-> NoCursor]
             ELSE IF extended < count
             THEN [returned |-> FALSE, all_tweets |-> extended,
                   cursor |-> a.next_cursor]
             ELSE [returned |-> TRUE, all_tweets |-> Min(extended, count),
                   cursor |-> a.next_cursor]

\* whether the answer is an external-service error
IsError(a) == a.response.kind # "ok"

\* a pass whose handlers go on with the loop instead of returning
fetch_user_tweets_pass_continue(a, all, cur) ==
    IF IsError(a) \/ a.status = "error"
    THEN [returned |-> FALSE, all_tweets |-> all, cursor |-> cur]
    ELSE fetch_user_tweets_ok(a, all, cur)

\* a pass whose handlers return an empty list
fetch_user_tweets_pass_drop(a, all, cur) ==
    IF IsError(a) \/ a.status = "error"
    THEN [returned |-> TRUE, all_tweets |-> 0, cursor |-> cur]
    ELSE fetch_user_tweets_ok(a, all, cur)

\* one pass of the while loop of fetch_user_tweets: the handlers and the
\* check of "status" return all_tweets as it is
fetch_user_tweets_pass(a, all, cur) ==
    IF IsError(a) \/ a.status = "error"
    THEN [returned |-> TRUE, all_tweets |-> all, cursor |-> cur]
    ELSE fetch_user_tweets_ok(a, all, cur)

FetchInit ==
    /\ prog \in {"buzz", "account"}
    /\ fetch_pc = "start"
    /\ kw = 1
    /\ all_tweets = <<>>
    /\ seen_tweet_ids = {}
    /\ user_tweets = 0
    /\ cursor = NoCursor
    /\ all_tweets_by_account = <<>>
    /\ all_analyses = <<>>
    /\ response = NoResponse
    /\ fetched = {}
    /\ failures = 0
    /\ sleeps = 0
    /\ http_requests = 0
    /\ page_requests = 0
    /\ data = NoData
    /\ exit_state = NoExit
    /\ files = {}
    /\ text = <<>>
    /\ ScoreIdle
    /\ df = <<>>
    /\ FilterIdle
    /\ DbEmpty
    /\ ChartIdle
    /\ AnalysisIdle

\* api_key = os.environ.get("TWITTER_API_KEY"); sys.exit(1) without it
CheckApiKey ==
    /\ fetch_pc = "start"
    /\ \E api_key \in BOOLEAN :
         IF api_key
         THEN fetch_pc' = "loop" /\ UNCHANGED exit_state
         ELSE fetch_pc' = "exit" /\ exit_state' = Exit(1)
    /\ UNCHANGED <<prog, kw, all_tweets, seen_tweet_ids, user_tweets, cursor,
                   all_tweets_by_account, all_analyses, response, fetched,
                   failures, sleeps, http_requests, page_requests, data,
                   files>>
    /\ UNCHANGED <<scoreVars, filterVars, dbVars, chartVars, analysisVars,
                   upload>>

\* one pass of the loop over keywords of fetch_buzz_posts: the request,
\* the tweets added, the sleep before the next keyword
FetchKeyword ==
    /\ prog = "buzz"
    /\ fetch_pc = "loop"
    /\ \E a \in SearchAnswers :
         LET r == fetch_tweets_by_keyword(a)
             added == add_tweets(r.tweets, all_tweets, seen_tweet_ids)
         IN  /\ http_requests' = http_requests + 1
             /\ response' = a.response
             /\ fetched' = fetched \cup {a.tweets[j] : j \in 1..Len(a.tweets)}
             /\ failures' = IF IsError(a) THEN failures + 1 ELSE 0
             /\ IF r.exit.called
                THEN /\ exit_state' = r.exit
                     /\ fetch_pc' = "exit"
                     /\ UNCHANGED <<kw, all_tweets, seen_tweet_ids, sleeps>>
                ELSE /\ all_tweets' = added.all_tweets
                     /\ seen_tweet_ids' = added.seen_tweet_ids
                     /\ UNCHANGED exit_state
                     /\ IF kw < Len(keywords)
                        THEN /\ sleeps' = sleeps + 1
                             /\ kw' = kw + 1
                             /\ fetch_pc' = "loop"
                        ELSE /\ fetch_pc' = "save"
                             /\ UNCHANGED <<kw, sleeps>>
    /\ UNCHANGED <<prog, user_tweets, cursor, all_tweets_by_account,
                   all_analyses, page_requests, data, files>>
    /\ UNCHANGED <<scoreVars, filterVars, dbVars, chartVars, analysisVars,
                   upload>>

\* the rest of fetch_buzz_posts
SaveBuzzPosts ==
    /\ prog = "buzz"
    /\ fetch_pc = "save"
    /\ LET r == save_buzz_posts(all_tweets, files)
       IN  /\ exit_state' = r.exit
           /\ files' = r.files
           /\ fetch_pc' = IF r.exit.called THEN "exit" ELSE "done"
    /\ UNCHANGED <<prog, kw, all_tweets, seen_tweet_ids, user_tweets, cursor,
                   all_tweets_by_account, all_analyses, response, fetched,
                   failures, sleeps, http_requests, page_requests, data>>
    /\ UNCHANGED <<scoreVars, filterVars, dbVars, chartVars, analysisVars,
                   upload>>

\* one pass of the while loop of fetch_user_tweets: the request of a page
GetPage ==
    /\ prog = "account"
    /\ fetch_pc = "loop"
    /\ user_tweets < count
    /\ \E a \in UserAnswers :
         LET r == fetch_user_tweets_pass(a, user_tweets, cursor)
         IN  /\ http_requests' = http_requests + 1
             /\ page_requests' = page_requests + 1
             /\ response' = a.response
             /\ data' = IF IsError(a) THEN data
                        ELSE [status |-> a.status, tweets |-> a.tweets,
                              has_next_page |-> a.has_next_page,
                              next_cursor |-> a.next_cursor]
             /\ failures' = IF IsError(a) \/ a.status = "error"
                            THEN failures + 1 ELSE 0
             /\ user_tweets' = r.all_tweets
             /\ cursor' = r.cursor
             /\ fetch_pc' = IF r.returned THEN "returned" ELSE "loop"
    /\ UNCHANGED <<prog, kw, all_tweets, seen_tweet_ids,
                   all_tweets_by_account, all_analyses, fetched, sleeps,
                   exit_state, files>>
    /\ UNCHANGED <<scoreVars, filterVars, dbVars, chartVars, analysisVars,
                   upload>>

\* the rest of the pass of the loop over TARGET_ACCOUNTS without the
\* time.sleep(10) before the next account
AccountDone_without_sleep ==
    /\ prog = "account"
    /\ fetch_pc = "returned"
    /\ IF user_tweets > 0
       THEN /\ all_tweets_by_account' =
                Append(all_tweets_by_account,
                       <<TARGET_ACCOUNTS[kw], user_tweets>>)
            /\ all_analyses' = Append(all_analyses, TARGET_ACCOUNTS[kw])
       ELSE UNCHANGED <<all_tweets_by_account, all_analyses>>
    /\ IF kw < Len(TARGET_ACCOUNTS)
       THEN /\ kw' = kw + 1
            /\ fetch_pc' = "loop"
            /\ user_tweets' = 0
            /\ cursor' = NoCursor
            /\ failures' = 0
            /\ page_requests' = 0
            /\ data' = NoData
            /\ UNCHANGED sleeps
       ELSE /\ fetch_pc' = "save"
            /\ UNCHANGED <<kw, sleeps, user_tweets, cursor, failures,
                           page_requests, data>>
    /\ UNCHANGED <<prog, all_tweets, seen_tweet_ids, response, fetched,
                   http_requests, exit_state, files>>
    /\ UNCHANGED <<scoreVars, filterVars, dbVars, chartVars, analysisVars,
                   upload>>

\* the rest of the pass of the loop over TARGET_ACCOUNTS of main: the
\* tweets kept and analysed, the sleep before the next account
AccountDone ==
    /\ prog = "account"
    /\ fetch_pc = "returned"
    /\ IF user_tweets > 0
       THEN /\ all_tweets_by_account' =
                Append(all_tweets_by_account,
                       <<TARGET_ACCOUNTS[kw], user_tweets>>)
            /\ all_analyses' = Append(all_analyses, TARGET_ACCOUNTS[kw])
       ELSE UNCHANGED <<all_tweets_by_account, all_analyses>>
    /\ IF kw < Len(TARGET_ACCOUNTS)
       THEN /\ sleeps' = sleeps + 1
            /\ kw' = kw + 1
            /\ fetch_pc' = "loop"
            /\ user_tweets' = 0
            /\ cursor' = NoCursor
            /\ failures' = 0
            /\ page_requests' = 0
            /\ data' = NoData
       ELSE /\ fetch_pc' = "save"
            /\ UNCHANGED <<kw, sleeps, user_tweets, cursor, failures,
                           page_requests, data>>
    /\ UNCHANGED <<prog, all_tweets, seen_tweet_ids, response, fetched,
                   http_requests, exit_state, files>>
    /\ UNCHANGED <<scoreVars, filterVars, dbVars, chartVars, analysisVars,
                   upload>>

\* the rest of main: sys.exit(0) without an analysis, else the report and
\* the workbook
SaveAccountReport ==
    /\ prog = "account"
    /\ fetch_pc = "save"
    /\ IF all_analyses = <<>>
       THEN /\ exit_state' = Exit(0)
            /\ fetch_pc' = "exit"
            /\ UNCHANGED files
       ELSE /\ files' = files
                    \cup account_files(all_analyses, all_tweets_by_account)
            /\ fetch_pc' = "done"
            /\ UNCHANGED exit_state
    /\ UNCHANGED <<prog, kw, all_tweets, seen_tweet_ids, user_tweets, cursor,
                   all_tweets_by_account, all_analyses, response, fetched,
                   failures, sleeps, http_requests, page_requests, data>>
    /\ UNCHANGED <<scoreVars, filterVars, dbVars, chartVars, analysisVars,
                   upload>>

FetchNext ==
    \/ CheckApiKey
    \/ FetchKeyword
    \/ SaveBuzzPosts
    \/ GetPage
    \/ AccountDone
    \/ SaveAccountReport

SpecFetch == FetchInit /\ [][FetchNext]_vars

\* a script that has not ended takes its next step
SpecFetchFair == SpecFetch /\ WF_vars(FetchNext)


-----------------------------------------------------------------------------
(* visualize.generate_all_charts.  Whether a chart function raises is an   *)
(* input of the call.                                                      *)

\* chart_funcs: "カテゴリ別平均いいね数", "冒頭パターン別効果", "時間帯別分析",
\* "CTA効果比較", "いいね数分布", in the order of the dict
chart_funcs ==
    <<[name |-> "category betsu heikin iine su",
       func |-> "chart_category_likes", path |-> "category_likes.png"],
      [name |-> "boto pattern betsu koka",
       func |-> "chart_opening_patterns", path |-> "opening_patterns.png"],
      [name |-> "jikantai betsu bunseki",
       func |-> "chart_time_slots", path |-> "time_slots.png"],
      [name |-> "CTA koka hikaku",
       func |-> "chart_cta_effect", path |-> "cta_effect.png"],
      [name |-> "iine su bunpu",
       func |-> "chart_likes_distribution", path |-> "likes_distribution.png"]>>

\* "文字数×いいね数散布図", "バズスコア分析"
new_charts ==
    <<[name |-> "mojisu x iine su sanpuzu",
       func |-> "chart_text_length_scatter",
       path |-> "text_length_scatter.png"],
      [name |-> "buzz score bunseki",
       func |-> "chart_buzz_score", path |-> "buzz_score.png"]>>

\* "ユーザー分析"
user_chart ==
    <<[name |-> "user bunseki",
       func |-> "chart_user_analysis", path |-> "user_analysis.png"]>>

\* the charts a call goes through, in its order
charts_of(df_raw) ==
    chart_funcs \o new_charts \o (IF df_raw # "None" THEN user_chart ELSE <<>>)

ChartFunctions ==
    {c.func : c \in {chart_funcs[j] : j \in DOMAIN chart_funcs}
                      \cup {new_charts[j] : j \in DOMAIN new_charts}
                      \cup {user_chart[j] : j \in DOMAIN user_chart}}

\* the calls of the chart functions without try/except: the first chart
\* function that raises ends the call
RECURSIVE run_charts_no_try(_, _, _)
run_charts_no_try(charts, raises, acc) ==
    IF charts = <<>> THEN acc
    ELSE LET c == Head(charts)
             invoked == Append(acc.invoked, c.func)
         IN  IF c.func \in raises
             THEN [acc EXCEPT !.invoked = invoked, !.raised = TRUE]
             ELSE run_charts_no_try(
                      Tail(charts), raises,
                      [acc EXCEPT !.invoked = invoked,
                                  !.results = @ \cup {<<c.name, c.path>>}])

\* the calls of the chart functions, each in its own try/except Exception:
\* results[name] = path when the function returns
RECURSIVE run_charts(_, _, _)
run_charts(charts, raises, acc) ==
    IF charts = <<>> THEN acc
    ELSE LET c == Head(charts)
             invoked == Append(acc.invoked, c.func)
         IN  IF c.func \in raises
             THEN run_charts(Tail(charts), raises,
                             [acc EXCEPT !.invoked = invoked])
             ELSE run_charts(
                      Tail(charts), raises,
                      [acc EXCEPT !.invoked = invoked,
                                  !.results = @ \cup {<<c.name, c.path>>}])

\* generate_all_charts(df, output_dir, df_raw): the chart functions it
\* called, the results it returns, whether it raised
generate_all_charts(df_raw, raises) ==
    run_charts(charts_of(df_raw), raises,
               [called |-> TRUE, invoked |-> <<>>, results |-> {},
                raised |-> FALSE])

ChartInit ==
    /\ ChartIdle
    /\ AnalysisIdle
    /\ text = <<>>
    /\ ScoreIdle
    /\ df = <<>>
    /\ FilterIdle
    /\ DbEmpty
    /\ FetchIdle

\* generate_all_charts(df) and generate_all_charts(df, chart_dir, df_raw)
CallGenerateAllCharts ==
    /\ ~chart_in.called
    /\ \E df_raw \in {"None", "df_raw"}, raises \in SUBSET ChartFunctions :
         /\ chart_in' = [called |-> TRUE, df_raw |-> df_raw, raises |-> raises]
         /\ chart_out' = generate_all_charts(df_raw, raises)
    /\ UNCHANGED <<scoreVars, filterVars, dbVars, fetchVars, analysisVars,
                   upload>>

SpecChart == ChartInit /\ [][CallGenerateAllCharts]_vars

-----------------------------------------------------------------------------
(* Properties of the HTTP ingestion *)

\* the last requests.get did not succeed
ErrorResponse == response.kind \notin {"none", "ok"}

\* the fetch has given up on a request that failed
GaveUp == failures > 0 /\ fetch_pc \in {"exit", "returned"}

\* C14 as stated: a failing request is attempted three times in total, and
\* only after the third failure does the fetch give up.
C14_GivesUpAfterThirdFailure == GaveUp => failures = 3

\* C14: a failing request is attempted exactly once.  No request of a
\* keyword or page fails twice, the step in which a request fails is the
\* step in which the fetch gives up (fetch_user_tweets returns,
\* fetch_tweets_by_keyword calls sys.exit), and that step does not sleep.
C14_GivesUpAfterFirstFailure ==
    /\ [](failures <= 1)
    /\ [][failures' > failures =>
            /\ fetch_pc' \in {"exit", "returned"}
            /\ sleeps' = sleeps]_vars

\* the request of the second page of an account has failed
C14_Witness ==
    /\ prog = "account"
    /\ fetch_pc = "returned"
    /\ failures = 1
    /\ http_requests = 2
    /\ user_tweets = 60

\* C15 as stated: an external-service error never ends the run.
C15_ErrorsNeverEndTheRun == ErrorResponse => fetch_pc # "exit"

\* C15: an error ends the run on the keyword path and not on the account
\* path.  In fetch_buzz_posts a failed request ends the run through
\* sys.exit(1) with no file written.  In account_analyzer.main a failed
\* request makes fetch_user_tweets return the tweets collected so far, the
\* loop goes on to the next account, the run ends only after the last
\* account, and it writes its files unless no account has any tweet, when
\* it ends through sys.exit(0).
C15_ErrorsEndOnlyTheKeywordRun ==
    /\ [](prog = "buzz" /\ ErrorResponse =>
            /\ exit_state = Exit(1)
            /\ fetch_pc = "exit"
            /\ files = {})
    /\ [](prog = "account" /\ http_requests > 0 /\ fetch_pc \in {"exit", "done"} =>
            /\ kw = Len(TARGET_ACCOUNTS)
            /\ http_requests >= Len(TARGET_ACCOUNTS)
            /\ IF all_analyses = <<>>
               THEN exit_state = Exit(0) /\ files = {}
               ELSE /\ exit_state = NoExit
                    /\ files = account_files(all_analyses,
                                             all_tweets_by_account))
    /\ [][prog = "account" /\ failures' > failures =>
            /\ user_tweets' = user_tweets
            /\ fetch_pc' = "returned"
            /\ exit_state' = NoExit]_vars
    /\ [][prog = "account" /\ fetch_pc = "returned" =>
            /\ user_tweets > 0 =>
                 all_tweets_by_account' =
                     Append(all_tweets_by_account,
                            <<TARGET_ACCOUNTS[kw], user_tweets>>)
            /\ kw < Len(TARGET_ACCOUNTS) =>
                 kw' = kw + 1 /\ fetch_pc' = "loop"]_vars

\* the files are written after the last request of the last account failed
\* with tweets of that account collected before
C15_Witness ==
    /\ prog = "account"
    /\ fetch_pc = "done"
    /\ ErrorResponse
    /\ files # {}
    /\ \E j \in 1..Len(all_tweets_by_account) :
         all_tweets_by_account[j] = <<TARGET_ACCOUNTS[kw], 60>>

Unauthorized == [kind |-> "HTTPError", status_code |-> 401]

\* C16: when a keyword request is answered with HTTP 401, fetch_buzz_posts
\* has ended through sys.exit with a non-zero status, no file is written,
\* and no further request is made.
C16_UnauthorizedEndsTheRun ==
    /\ [](prog = "buzz" /\ response = Unauthorized =>
            /\ exit_state.called
            /\ exit_state.code # 0
            /\ fetch_pc = "exit"
            /\ files = {})
    /\ [][prog = "buzz" /\ response = Unauthorized =>
            http_requests' = http_requests /\ files' = files]_vars

\* the second keyword is answered with 401 after the first brought tweets
C16_Witness ==
    /\ prog = "buzz"
    /\ response = Unauthorized
    /\ kw = 2
    /\ all_tweets # <<>>
    /\ http_requests = 2

\* fetch_buzz_posts has made requests, all answered without error and
\* without tweets
AllEmptySoFar ==
    /\ prog = "buzz"
    /\ http_requests > 0
    /\ response.kind = "ok"
    /\ fetched = {}

\* C17: when every keyword search succeeds and returns no tweets,
\* fetch_buzz_posts ends only after it has queried every keyword, it ends
\* through sys.exit(0), it writes no file, and it does end.
C17_NoTweetsExitsZero ==
    /\ [](AllEmptySoFar =>
            /\ files = {}
            /\ exit_state.called =>
                 /\ exit_state = Exit(0)
                 /\ http_requests = Len(keywords)
            /\ fetch_pc # "done")
    /\ (AllEmptySoFar ~> (~AllEmptySoFar \/ exit_state = Exit(0)))

\* all keywords have been queried without a tweet and the script has ended
C17_Witness ==
    /\ AllEmptySoFar
    /\ http_requests = Len(keywords)
    /\ exit_state = Exit(0)
    /\ fetch_pc = "exit"

\* the ids of the tweets fetched, the missing id left out
FetchedIds == {t.id : t \in fetched} \ {""}

-----------------------------------------------------------------------------
(* Properties of generate_all_charts *)

\* the chart functions the call invoked
Invoked == {chart_out.invoked[j] : j \in DOMAIN chart_out.invoked}

\* the entries of the chart functions that did not raise
Completed(fs) ==
    {<<c.name, c.path>> :
        c \in {x \in {charts_of("df_raw")[j] : j \in DOMAIN charts_of("df_raw")} :
                 x.func \in fs \ chart_in.raises}}

-----------------------------------------------------------------------------
(* Properties of import_file on files without text column *)

\* none of the columns is 本文, テキスト or text
NoTextAlias(cols) == cols \cap {"honbun", "tekisuto", "text"} = {}

\* C20: import_file on a file none of whose columns is 本文, テキスト or text
\* raises ValueError, and the posts table holds the same rows after the
\* call as before it.
C20_NoTextColumnRaises ==
    /\ [](sess["s1"].pc # "idle" /\ NoTextAlias(sess["s1"].cols) =>
            sess["s1"].pc = "ValueError")
    /\ [][sess'["s1"] # sess["s1"] /\ NoTextAlias(sess'["s1"].cols) =>
            /\ sess'["s1"].pc = "ValueError"
            /\ posts' = posts]_vars

\* an import of a file without text column has failed on a table with rows
C20_Witness ==
    /\ sess["s1"].pc = "ValueError"
    /\ "Text" \in sess["s1"].cols
    /\ posts # {}


-----------------------------------------------------------------------------
(* Properties of the pauses and of the pages of the HTTP ingestion *)

\* C21 as stated: there is a sleep between any two consecutive requests,
\* so n requests are separated by at least n - 1 sleeps.
C21_SleepBetweenAnyTwoRequests ==
    http_requests >= 2 => sleeps >= http_requests - 1

\* C21: there is a sleep between the requests of two keywords and between
\* the requests of two accounts, and none between the pages of one
\* account.  fetch_buzz_posts has slept once after each request when it
\* makes the next one; account_analyzer.main has slept once for each
\* account it has finished; the request of a page does not sleep, and the
\* request of the next page of the account follows it without sleep.
C21_SleepBetweenKeywordsAndAccounts ==
    /\ [](prog = "buzz" /\ fetch_pc = "loop" => sleeps = http_requests)
    /\ [](prog = "account" => sleeps = kw - 1)
    /\ [][prog = "account" /\ http_requests' > http_requests =>
            sleeps' = sleeps]_vars
    /\ [][prog = "account" /\ page_requests' > page_requests
            /\ page_requests > 0 => sleeps' = sleeps /\ kw' = kw]_vars

\* the second page of the second account has been requested: three
\* requests, one sleep
C21_Witness ==
    /\ prog = "account"
    /\ kw = 2
    /\ page_requests = 2
    /\ http_requests = 3
    /\ sleeps = 1


\* the last request of the fetch_user_tweets call that is running failed,
\* or its page was the last one
LastPage ==
    \/ response.kind # "ok"
    \/ data.status = "error"
    \/ data.tweets = 0
    \/ ~data.has_next_page
    \/ data.next_cursor = NoCursor

\* C22: fetch_user_tweets terminates whatever the server answers.  A call
\* that goes on has got at least one tweet from each of its requests, so
\* it makes at most count requests; it holds at most count tweets; it
\* returns with the request that fails, reads an empty page, gets no
\* cursor or has_next_page = false; once it has returned no request is
\* made before the next call; and a call that is running returns.
C22_FetchUserTweetsTerminates ==
    /\ [](prog = "account" =>
            /\ page_requests <= count
            /\ user_tweets <= count
            /\ fetch_pc = "loop" => page_requests <= user_tweets)
    /\ [][prog = "account" /\ page_requests' > page_requests /\ LastPage' =>
            fetch_pc' = "returned"]_vars
    /\ [][prog = "account" /\ fetch_pc = "returned" =>
            http_requests' = http_requests]_vars
    /\ ((prog = "account" /\ fetch_pc = "loop") ~> fetch_pc = "returned")

\* the server has reported has_next_page with the same cursor twice, and
\* the call has returned count tweets of the 120 it got
C22_Witness ==
    /\ prog = "account"
    /\ fetch_pc = "returned"
    /\ page_requests = 2
    /\ data.has_next_page
    /\ data.next_cursor = "c1"
    /\ cursor = "c1"
    /\ user_tweets = count


-----------------------------------------------------------------------------
(* Properties of the timestamp argument of the v2 scorer *)

\* the factors of a v2 result other than _hour
Scored(r) ==
    <<r.factors.boutou_pattern, r.factors.mojisuu, r.factors.category,
      r.factors.gutaiteki_suuji, r.factors.kanketsusa, r.factors.emoji,
      r.factors.story>>

\* C23: the timestamp does not influence the v2 score.  The result of
\* calculate_buzz_score_v2(text, post_datetime) has the total_score and the
\* value of every factor other than _hour that the call has with any other
\* post_datetime: None, the empty string, a string without time, a string
\* with another hour.
C23_TimestampDoesNotInfluenceScore ==
    called = V2 =>
        \A dt \in DateTimes :
            LET other == calculate_buzz_score_v2(text, dt)
            IN  /\ other.total_score = result.total_score
                /\ Scored(other) = Scored(result)

\* a text has been scored with a timestamp whose hour is 9
C23_Witness ==
    /\ called = V2
    /\ post_datetime = [kind |-> "time", hour |-> 9]
    /\ result.factors._hour = 9
    /\ result.total_score > 0
    /\ calculate_buzz_score_v2(text, [kind |-> "None"]).factors._hour = -1


-----------------------------------------------------------------------------
(* Properties of the value import_file returns *)

\* C24: when import_file returns, inserted + skipped is the number of rows
\* left by normalization and the giveaway filter, the posts table has
\* inserted rows more than before the call, and every row it had before
\* the call is still in it, unchanged.
C24_ImportCountsAndKeepsRows ==
    /\ [](sess["s1"].pc = "done" =>
            sess["s1"].inserted + sess["s1"].skipped = Len(sess["s1"].rows))
    /\ [][sess'["s1"] # sess["s1"] /\ sess'["s1"].pc = "done" =>
            /\ Cardinality(posts') = Cardinality(posts) + sess'["s1"].inserted
            /\ posts \subseteq posts']_vars

\* an import has inserted a row and skipped a row into a table with rows
C24_Witness ==
    /\ sess["s1"].pc = "done"
    /\ sess["s1"].inserted = 1
    /\ sess["s1"].skipped = 1
    /\ Cardinality(posts) = 2


-----------------------------------------------------------------------------
(* analyze_new.py: the new batch of the posts table *)

MaxPosts == 3

\* moments at which import_file stamped a row: the day, and the second
\* of the day; two days, the first one just before midnight, the second
\* one from just after midnight to ten o'clock
Moments ==
    {[day |-> 1, sec |-> 100], [day |-> 1, sec |-> 86390],
     [day |-> 2, sec |-> 20], [day |-> 2, sec |-> 3600],
     [day |-> 2, sec |-> 35990], [day |-> 2, sec |-> 36000]}

\* datetime.now().isoformat(): YYYY-MM-DD, the letter T, HH:MM:SS(.ffffff)
isoformat(t) == [date |-> t.day, sep |-> "T", time |-> t.sec]

\* SQLite datetime(s, '-60 seconds'): s read as a date and a time, moved
\* back by 60 seconds, written as YYYY-MM-DD, a space, HH:MM:SS
datetime_minus_60_seconds(s) ==
    LET secs == s.date * 86400 + s.time - 60
    IN  [date |-> secs \div 86400, sep |-> " ", time |-> secs % 86400]

\* a >= b of two TEXT values, character by character: the date, then the
\* separator, where the space sorts before the letter T, then the time
text_ge(a, b) ==
    LET code(c) == IF c = " " THEN 32 ELSE 84
    IN  \/ a.date > b.date
        \/ a.date = b.date /\ code(a.sep) > code(b.sep)
        \/ a.date = b.date /\ a.sep = b.sep /\ a.time >= b.time

\* the posts table after imports at the moments ts, one row each
stamped(ts) == {[id |-> n, added_at |-> isoformat(ts[n])] : n \in DOMAIN ts}

\* analyze_new_posts(): latest = SELECT MAX(added_at); df_new = the rows
\* WHERE added_at >= datetime(latest, '-60 seconds'); df_prev = the rows
\* of df_all whose id is not in df_new
analyze_new_posts(db) ==
    IF db = {}
    THEN [called |-> TRUE, returned |-> "no data", df_new |-> {},
          df_prev |-> {}]
    ELSE LET latest ==
                 CHOOSE a \in {p.added_at : p \in db} :
                     \A p \in db : text_ge(a, p.added_at)
             df_new ==
                 {p \in db :
                     text_ge(p.added_at, datetime_minus_60_seconds(latest))}
             df_prev == {p \in db : p.id \notin {q.id : q \in df_new}}
         IN  [called |-> TRUE,
              returned |-> IF df_new = {} THEN "no new" ELSE "analysed",
              df_new |-> df_new, df_prev |-> df_prev]

NewInit ==
    /\ posts \in {stamped(ts) : ts \in SeqsUpTo(Moments, MaxPosts)}
    /\ pending = [s \in Sessions |-> {}]
    /\ next_id = Cardinality(posts) + 1
    /\ sess = [s \in Sessions |-> IdleSession]
    /\ text = <<>>
    /\ ScoreIdle
    /\ df = <<>>
    /\ FilterIdle
    /\ FetchIdle
    /\ ChartIdle
    /\ AnalysisIdle

\* python analyze_new.py
CallAnalyzeNewPosts ==
    /\ ~new_posts.called
    /\ new_posts' = analyze_new_posts(posts)
    /\ UNCHANGED <<scoreVars, filterVars, dbVars, fetchVars, chartVars,
                   account_tweets, analysis, upload>>

SpecNew == NewInit /\ [][CallAnalyzeNewPosts]_vars

\* the moment a stored added_at stands for, in seconds
Moment(a) == a.date * 86400 + a.time

\* C25: after analyze_new_posts ran on a table with posts, df_new is
\* exactly the posts added within the 60 seconds before the latest
\* added_at, and df_prev is every other post of the table.
C25_NewBatchIsTheLast60Seconds ==
    (new_posts.called /\ posts # {}) =>
        LET latest == CHOOSE m \in {Moment(p.added_at) : p \in posts} :
                          \A p \in posts : m >= Moment(p.added_at)
        IN  /\ new_posts.df_new =
                   {p \in posts : Moment(p.added_at) >= latest - 60}
            /\ new_posts.df_prev = posts \ new_posts.df_new

\* a post added hours before the latest one on the same day is in df_new
C25_Witness ==
    /\ new_posts.called
    /\ \E p \in new_posts.df_new, q \in posts :
           /\ p.added_at.date = q.added_at.date
           /\ Moment(q.added_at) - Moment(p.added_at) > 3600


-----------------------------------------------------------------------------
(* Properties of the duplicate removal *)

\* the rows a step deleted each have a remaining row of the same account
\* and the same full text
ExactDuplicatesDeleted ==
    \A p \in posts \ posts' :
        \E q \in posts' : q.account = p.account /\ q.text = p.text

\* a second run of each removal on the table deletes nothing
SecondRemovalDeletesNothing ==
    /\ fix_duplicates_delete(fix_duplicates_delete(posts)) =
           fix_duplicates_delete(posts)
    /\ bulk_delete(bulk_delete(posts)) = bulk_delete(posts)
    /\ \A g \in dup_groups(posts) :
           group_delete(group_delete(posts, g), g) = group_delete(posts, g)

\* C26 as stated: every duplicate removal (fix_duplicates, the bulk and
\* the group delete of the dashboard) deletes a row only if a remaining
\* row has the same account and exactly the same full text, so two posts
\* of one account with different texts are never reduced to one; and a
\* second run of the removal deletes nothing.
C26_OnlyExactDuplicatesRemoved ==
    /\ [][ExactDuplicatesDeleted]_vars
    /\ []SecondRemovalDeletesNothing

\* C26, amended: the bulk and the group delete of the dashboard delete a
\* row only if a remaining row has the same account and the same full
\* text; fix_duplicates deletes a row only if a remaining row with a lower
\* id has the same account and the same first 50 characters of the text;
\* and a second run of each removal deletes nothing.
C26_RemovalKeepsOneRowPerGroup ==
    /\ [][(BulkDelete \/ GroupDelete) => ExactDuplicatesDeleted]_vars
    /\ [][FixDuplicates =>
              \A p \in posts \ posts' :
                  \E q \in posts' :
                      /\ q.account = p.account
                      /\ SUBSTR_1_50(q.text) = SUBSTR_1_50(p.text)
                      /\ q.id < p.id]_vars
    /\ []SecondRemovalDeletesNothing

\* a post that an import stored is gone, no row of its full text remains,
\* and a row of its account with the same first 50 characters does
C26_Witness ==
    \E s \in Sessions :
        /\ sess[s].pc = "done"
        /\ \E k \in DOMAIN sess[s].rows :
              LET r == sess[s].rows[k]
              IN  /\ Stored(posts, r.account, r.text) = {}
                  /\ \E q \in posts :
                        /\ q.account = r.account
                        /\ SUBSTR_1_50(q.text) = SUBSTR_1_50(r.text)


-----------------------------------------------------------------------------
(* Properties of interleaved imports *)

\* C27: with two import_file runs interleaved on one database file, no two
\* rows of posts ever have the same (text, account), and between the
\* existence check of one run for a post and its insert of the post the
\* other run inserts no row of the same post.
C27_NoDuplicateUnderInterleaving ==
    /\ [](\A p \in posts : Cardinality(Stored(posts, p.account, p.text)) = 1)
    /\ [][\A s \in Sessions :
             (sess[s].pc = "insert" /\ sess'[s] = sess[s]) =>
                 LET r == sess[s].rows[sess[s].i]
                 IN  \A o \in Sessions \ {s} :
                         Stored(pending'[o] \ pending[o], r.account, r.text) = {}
         ]_vars

\* both runs have committed, each has inserted the post, none has skipped
\* it, and posts holds it twice
C27_Witness ==
    /\ \A s \in Sessions :
          sess[s].pc = "done" /\ sess[s].inserted = 1 /\ sess[s].skipped = 0
    /\ \E p, q \in posts :
          p.id # q.id /\ p.account = q.account /\ p.text = q.text


-----------------------------------------------------------------------------
(* app.py: the upload handler of the dashboard *)

\* return inserted, skipped of import_file: two counters
import_file_returns(s) ==
    <<[type |-> "int", val |-> s.inserted], [type |-> "int", val |-> s.skipped]>>

\* the block under `if uploaded:`, given the locals s of its import_file
\* call when that call ended: the st.success, st.info, st.expander and
\* st.error calls made, in order, and whether the temporary file is there
\* afterwards.  len() of an int raises TypeError, which the except clause
\* catches as it catches what import_file raises.
upload_handler(s) ==
    LET len(x) == IF x.type = "list"
                  THEN [raised |-> FALSE, val |-> Len(x.val)]
                  ELSE [raised |-> TRUE, val |-> 0]
        inserted == import_file_returns(s)[1]
        skipped_rows == import_file_returns(s)[2]
        skipped == len(skipped_rows)
        shown ==
            IF s.pc # "done" THEN <<"error">>
            ELSE IF skipped.raised THEN <<"error">>
            ELSE (IF inserted.val > 0 THEN <<"success">> ELSE <<"info">>)
                 \o (IF skipped.val > 0 THEN <<"expander">> ELSE <<>>)
    IN  [called |-> TRUE, shown |-> shown, tmp_exists |-> FALSE]

\* a file with the columns cols is dropped on the uploader of the dashboard
Upload ==
    \E cols \in InputColumns, file \in Files :
        /\ ImportFile("s1", cols, file)
        /\ upload' = upload_handler(sess'["s1"])

SpecUpload == DbInit /\ [][Upload]_vars

\* the members of a sequence
Shown(q) == {q[n] : n \in DOMAIN q}

\* C28: when import_file completed without raising, the upload handler
\* shows the outcome of the import, success when rows were inserted and
\* the info message when none was, and never the error message; and
\* after the handler the temporary file is gone, whether import_file
\* completed or raised.
C28_UploadReportsTheOutcome ==
    upload.called =>
        /\ ~upload.tmp_exists
        /\ sess["s1"].pc = "done" =>
              /\ "error" \notin Shown(upload.shown)
              /\ sess["s1"].inserted > 0 => "success" \in Shown(upload.shown)
              /\ sess["s1"].inserted = 0 => "info" \in Shown(upload.shown)

\* import_file inserted a row and returned; the handler showed the error
\* message and nothing else
C28_Witness ==
    /\ upload.called
    /\ sess["s1"].pc = "done"
    /\ sess["s1"].inserted > 0
    /\ upload.shown = <<"error">>
    /\ ~upload.tmp_exists


-----------------------------------------------------------------------------
(* analyze_posts.py: analyze_time *)

MaxTimeRows == 2

\* the values of the column 投稿日時: UTC timestamps of a Monday (weekday 0)
\* and a Sunday (weekday 6), at hours that fall into each of the five time
\* slots in JST, before and after the JST midnight; and a value that
\* pd.to_datetime rejects
TimeCells ==
    {[ok |-> TRUE, weekday |-> w, hour |-> h] :
        w \in {0, 6}, h \in {0, 3, 9, 13, 14, 15, 20, 21}}
    \cup {[ok |-> FALSE, weekday |-> 0, hour |-> 0]}

TimeFrames ==
    {[n \in DOMAIN q |-> [datetime |-> q[n][1], likes |-> q[n][2]]] :
        q \in SeqsUpTo(TimeCells \X {1, 2}, MaxTimeRows)}

\* the keys of time_slots: 朝(6-9時), 昼(9-12時), 午後(12-18時), 夜(18-22時),
\* 深夜(22-6時)
time_slots == {"asa", "hiru", "gogo", "yoru", "shinya"}

\* 月 火 水 木 金 土 日
weekday_names == <<"getsu", "ka", "sui", "moku", "kin", "do", "nichi">>

\* the if/elif chain of analyze_time over hour
slot_of(hour) ==
    IF 6 <= hour /\ hour < 9 THEN "asa"
    ELSE IF 9 <= hour /\ hour < 12 THEN "hiru"
    ELSE IF 12 <= hour /\ hour < 18 THEN "gogo"
    ELSE IF 18 <= hour /\ hour < 22 THEN "yoru"
    ELSE "shinya"

\* the like counts of the rows q, in order
LikesOf(q) == [n \in DOMAIN q |-> q[n].likes]

\* analyze_time(df): per time slot and per weekday name the like counts
\* appended to its list; a weekday no post fell on has the empty list
analyze_time(d) ==
    LET parsed == SelectSeq(d, LAMBDA r : r.datetime.ok)
        hour(r) == (r.datetime.hour + 9) % 24
        weekday(r) == r.datetime.weekday
    IN  [time_slots |->
             [sl \in time_slots |->
                 LikesOf(SelectSeq(parsed, LAMBDA r : slot_of(hour(r)) = sl))],
         weekday_data |->
             [w \in {weekday_names[n] : n \in DOMAIN weekday_names} |->
                 LikesOf(SelectSeq(parsed,
                     LAMBDA r : weekday_names[weekday(r) + 1] = w))]]

TimeInit ==
    /\ df \in TimeFrames
    /\ FilterIdle
    /\ text = <<>>
    /\ ScoreIdle
    /\ DbEmpty
    /\ FetchIdle
    /\ ChartIdle
    /\ AnalysisIdle

\* analyze_time(df)
CallAnalyzeTime ==
    /\ filter_called = "none"
    /\ filter_result' = analyze_time(df)
    /\ filter_called' = "analyze_time"
    /\ UNCHANGED <<df, scoreVars, dbVars, ioVars>>

SpecTime == TimeInit /\ [][CallAnalyzeTime]_vars

\* the JST instant of a UTC timestamp: nine hours later, on the next day
\* when that passes midnight
Jst(t) ==
    [hour |-> (t.hour + 9) % 24,
     weekday |-> (t.weekday + (t.hour + 9) \div 24) % 7]

\* C29: after analyze_time, every post with a parseable timestamp is
\* counted in the time slot of its JST hour and under the weekday of the
\* same JST instant (the day after the UTC weekday when UTC hour + 9 >=
\* 24), and in no other slot and under no other weekday.
C29_SlotAndWeekdayOfOneJstInstant ==
    filter_called = "analyze_time" =>
        LET parsed == SelectSeq(df, LAMBDA r : r.datetime.ok)
        IN  /\ \A sl \in time_slots :
                  filter_result.time_slots[sl] =
                      LikesOf(SelectSeq(parsed,
                          LAMBDA r : slot_of(Jst(r.datetime).hour) = sl))
            /\ \A n \in DOMAIN weekday_names :
                  filter_result.weekday_data[weekday_names[n]] =
                      LikesOf(SelectSeq(parsed,
                          LAMBDA r : Jst(r.datetime).weekday = n - 1))

\* a post of Sunday 15:00 UTC, Monday 0:00 JST, is counted in the slot of
\* the night and under Sunday
C29_Witness ==
    /\ filter_called = "analyze_time"
    /\ Len(df) = 1
    /\ df[1].datetime = [ok |-> TRUE, weekday |-> 6, hour |-> 15]
    /\ filter_result.time_slots["shinya"] = <<df[1].likes>>
    /\ filter_result.weekday_data["nichi"] = <<df[1].likes>>
    /\ filter_result.weekday_data["getsu"] = <<>>


-----------------------------------------------------------------------------
(* account_analyzer.py: analyze_account *)

MaxAccountTweets == 6

\* tweets of the scores 1, 2, 3 and 3
AccountTweets ==
    {[likeCount |-> 1, retweetCount |-> 0, replyCount |-> 0],
     [likeCount |-> 0, retweetCount |-> 1, replyCount |-> 0],
     [likeCount |-> 0, retweetCount |-> 0, replyCount |-> 1],
     [likeCount |-> 3, retweetCount |-> 0, replyCount |-> 0]}

\* tweet["engagement_score"] = likeCount + retweetCount * 2 + replyCount * 3
with_engagement_score(t) ==
    [likeCount |-> t.likeCount, retweetCount |-> t.retweetCount,
     replyCount |-> t.replyCount,
     engagement_score |-> t.likeCount + t.retweetCount * 2 + t.replyCount * 3]

\* sorted(tweets, key=engagement_score, reverse=True): descending, tweets
\* of one score in the order of the list
RECURSIVE sorted_tweets(_)
sorted_tweets(q) ==
    IF q = <<>> THEN <<>>
    ELSE LET x == q[Len(q)]
             front == sorted_tweets(SubSeq(q, 1, Len(q) - 1))
             ahead == Cardinality({n \in DOMAIN front :
                          front[n].engagement_score >= x.engagement_score})
         IN  SubSeq(front, 1, ahead) \o <<x>>
                 \o SubSeq(front, ahead + 1, Len(front))

\* analyze_account(username, tweets): None for no tweets, else the scored
\* tweets, top5 = sorted_tweets[:5], bottom5 = sorted_tweets[-5:] for five
\* tweets or more and sorted_tweets[:1] for fewer
analyze_account(q) ==
    IF q = <<>> THEN [called |-> TRUE, returned |-> "None"]
    ELSE LET scored == [n \in DOMAIN q |-> with_engagement_score(q[n])]
             sorted == sorted_tweets(scored)
             top5 == SubSeq(sorted, 1, IF Len(sorted) < 5 THEN Len(sorted) ELSE 5)
             bottom5 == IF Len(sorted) >= 5
                        THEN SubSeq(sorted, Len(sorted) - 4, Len(sorted))
                        ELSE SubSeq(sorted, 1, 1)
         IN  [called |-> TRUE, returned |-> "analysis",
              total_tweets |-> Len(q), top5_tweets |-> top5,
              bottom5_tweets |-> bottom5, all_tweets |-> scored]

AccountInit ==
    /\ account_tweets \in SeqsUpTo(AccountTweets, MaxAccountTweets)
    /\ analysis = NotCalled
    /\ NewIdle
    /\ UploadIdle
    /\ text = <<>>
    /\ ScoreIdle
    /\ df = <<>>
    /\ FilterIdle
    /\ DbEmpty
    /\ FetchIdle
    /\ ChartIdle

\* analysis = analyze_account(username, tweets)
CallAnalyzeAccount ==
    /\ ~analysis.called
    /\ analysis' = analyze_account(account_tweets)
    /\ UNCHANGED <<scoreVars, filterVars, dbVars, fetchVars, chartVars,
                   new_posts, account_tweets, upload>>

SpecAccount == AccountInit /\ [][CallAnalyzeAccount]_vars

\* how many tweets of q have a score for which P holds
ScoreCount(q, P(_)) ==
    Cardinality({n \in DOMAIN q : P(q[n].engagement_score)})

\* C30: for a non-empty tweet list analyze_account gives every tweet the
\* engagement_score likes + 2*retweets + 3*replies; top5_tweets are the
\* five (or all, if fewer) highest-scoring tweets in non-increasing order;
\* and every tweet with a strictly lower score than some tweet of
\* bottom5_tweets is itself in bottom5_tweets, also for fewer than five
\* tweets.
C30_TopAndBottomFive ==
    (analysis.called /\ account_tweets # <<>>) =>
        LET all == analysis.all_tweets
            top == analysis.top5_tweets
            bottom == analysis.bottom5_tweets
        IN  /\ \A n \in DOMAIN all :
                  all[n].engagement_score =
                      account_tweets[n].likeCount
                      + 2 * account_tweets[n].retweetCount
                      + 3 * account_tweets[n].replyCount
            /\ Len(top) = (IF Len(all) < 5 THEN Len(all) ELSE 5)
            /\ \A n \in 1..(Len(top) - 1) :
                  top[n].engagement_score >= top[n + 1].engagement_score
            /\ \A k \in DOMAIN top :
                  ScoreCount(all, LAMBDA e : e > top[k].engagement_score) =
                      ScoreCount(top, LAMBDA e : e > top[k].engagement_score)
            /\ bottom # <<>>
            /\ \A k \in DOMAIN bottom :
                  ScoreCount(all, LAMBDA e : e < bottom[k].engagement_score) =
                      ScoreCount(bottom,
                                 LAMBDA e : e < bottom[k].engagement_score)

\* an account with two tweets of the scores 1 and 3: bottom5_tweets is
\* the tweet of score 3
C30_Witness ==
    /\ analysis.called
    /\ Len(account_tweets) = 2
    /\ analysis.all_tweets[1].engagement_score = 1
    /\ analysis.all_tweets[2].engagement_score = 3
    /\ analysis.bottom5_tweets = <<analysis.all_tweets[2]>>

====
